---- MODULE Spec2Model ----
(***************************************************************************)
(* The color table of ibsamsky/color-table: the fragment table behind a    *)
(* buffered writer (src/src/color_table.rs) and the generation registry    *)
(* (src/src/generations.rs), with the threads that use one ColorTable:     *)
(* callers of with_generation, the threads a generation's closure runs,    *)
(* readers holding an MmapGuard, and a caller of sync.                     *)
(*                                                                         *)
(* Every step of a thread is one critical section of the code (one lock    *)
(* acquisition, or one statement holding two locks).                       *)
(***************************************************************************)
EXTENDS Integers, Sequences, FiniteSets, TLC

\* ------------------------------------------------------------------ bounds
\* head never exceeds MaxHead (the u32 counter is far from wrapping)
MaxHead == 4
\* generation numbers passed to with_generation are 0..MaxGen
MaxGen == 2
\* colours passed to new_color_class / fork / extend are 1..MaxColor
MaxColor == 2
\* number of fragments in the directory a loaded store starts from is 0..MaxLoaded
MaxLoaded == 1
\* head never exceeds MaxReadHead in the runs that have a reader
MaxReadHead == 3

\* size_of::<ColorFragment>(), the length of TABLE_MAGIC
RecordSize == 8
\* BUFFER_SIZE = 1 << 20
BUFFER_SIZE == 1048576

Idx == 0..MaxHead
Gens == 0..MaxGen
Colors == 1..MaxColor
\* Option<u64>::None for a generation lookup
NoGen == -1

\* threads calling with_generation, threads run by a generation's closure,
\* threads calling map and reading classes
Writers == {"w1", "w2"}
Workers == {"t1", "t2"}
Readers == {"r1"}
NoThread == "none"

\* ColorFragment
Fragment(p, c) == [parent_pointer |-> p, color |-> c]

\* ------------------------------------------------- registry (generations.rs)
\* GenerationState
StNone == [tag |-> "None", gen |-> 0, start |-> 0]
StEnded(g) == [tag |-> "Ended", gen |-> g, start |-> 0]
StInProgress(g, s) == [tag |-> "InProgress", gen |-> g, start |-> s]

\* RangeMap<ColorFragmentIndex, u64>: a map from index ranges to values that
\* coalesces adjacent ranges of equal value, so it is the function from each
\* covered index to its value.
EmptyRanges == [i \in Idx |-> NoGen]

\* RangeMap::insert(s..e, g): overwrites whatever the range covered
RangeInsert(ranges, s, e, g) ==
    [i \in Idx |-> IF s <= i /\ i < e THEN g ELSE ranges[i]]

\* RangeMap::remove(s..e)
RangeRemove(ranges, s, e) ==
    [i \in Idx |-> IF s <= i /\ i < e THEN NoGen ELSE ranges[i]]

\* Generations::new
Generations_new == [ranges |-> EmptyRanges, state |-> StNone]

Covered(ranges) == {i \in Idx : ranges[i] # NoGen}

Max(S) == CHOOSE x \in S : \A y \in S : y <= x

\* Generations::last_range_end: the end of the last range, 0 standing for None
\* (no range ends at 0, ranges being non-empty)
last_range_end(gens) ==
    IF Covered(gens.ranges) = {} THEN 0 ELSE Max(Covered(gens.ranges)) + 1

\* find giving, for every recorded index, the number in the registry's state
find_latest(gens, idx) ==
    IF idx \in Idx /\ gens.ranges[idx] # NoGen THEN gens.state.gen ELSE NoGen

\* find counting the generations down from the largest number
find_reversed(gens, idx) ==
    IF idx \in Idx /\ gens.ranges[idx] # NoGen THEN MaxGen - gens.ranges[idx] ELSE NoGen

\* Generations::find
find(gens, idx) == IF idx \in Idx THEN gens.ranges[idx] ELSE NoGen

\* Generations::current_generation
current_generation(gens) ==
    IF gens.state.tag = "InProgress" THEN gens.state.gen ELSE NoGen

\* start_new_generation_at with the registry write deferred to the end of the
\* generation: no singleton range is inserted
start_without_singleton(gens, head, generation) ==
    IF gens.state.tag = "None"
    THEN IF head # 0
         THEN [res |-> "InvalidGenerationState", gens |-> gens]
         ELSE [res |-> "ok",
               gens |-> [ranges |-> gens.ranges, state |-> StInProgress(generation, head)]]
    ELSE IF gens.state.tag = "Ended" /\ gens.state.gen < generation
    THEN IF last_range_end(gens) # 0 /\ last_range_end(gens) > head
         THEN [res |-> "InvalidGenerationState", gens |-> gens]
         ELSE [res |-> "ok",
               gens |-> [ranges |-> gens.ranges, state |-> StInProgress(generation, head)]]
    ELSE [res |-> "InvalidGeneration", gens |-> gens]

\* start_new_generation_at accepting the number of the last generation again
start_not_smaller(gens, head, generation) ==
    IF gens.state.tag = "None"
    THEN IF head # 0
         THEN [res |-> "InvalidGenerationState", gens |-> gens]
         ELSE [res |-> "ok",
               gens |-> [ranges |-> RangeInsert(gens.ranges, head, head + 1, generation),
                         state |-> StInProgress(generation, head)]]
    ELSE IF gens.state.tag = "Ended" /\ gens.state.gen <= generation
    THEN IF last_range_end(gens) # 0 /\ last_range_end(gens) > head
         THEN [res |-> "InvalidGenerationState", gens |-> gens]
         ELSE [res |-> "ok",
               gens |-> [ranges |-> RangeInsert(gens.ranges, head, head + 1, generation),
                         state |-> StInProgress(generation, head)]]
    ELSE [res |-> "InvalidGeneration", gens |-> gens]

\* start_new_generation_at without the comparison of the generation number
\* with the last one
start_any_generation(gens, head, generation) ==
    IF gens.state.tag = "None"
    THEN IF head # 0
         THEN [res |-> "InvalidGenerationState", gens |-> gens]
         ELSE [res |-> "ok",
               gens |-> [ranges |-> RangeInsert(gens.ranges, head, head + 1, generation),
                         state |-> StInProgress(generation, head)]]
    ELSE IF gens.state.tag = "Ended"
    THEN IF last_range_end(gens) # 0 /\ last_range_end(gens) > head
         THEN [res |-> "InvalidGenerationState", gens |-> gens]
         ELSE [res |-> "ok",
               gens |-> [ranges |-> RangeInsert(gens.ranges, head, head + 1, generation),
                         state |-> StInProgress(generation, head)]]
    ELSE [res |-> "InvalidGeneration", gens |-> gens]

\* Generations::start_new_generation_at: the result and the registry after
\* start_new_generation_at placing the singleton one index past head
start_past_head(gens, head, generation) ==
    IF gens.state.tag = "None"
    THEN IF head # 0
         THEN [res |-> "InvalidGenerationState", gens |-> gens]
         ELSE [res |-> "ok",
               gens |-> [ranges |-> RangeInsert(gens.ranges, head + 1, head + 2, generation),
                         state |-> StInProgress(generation, head + 1)]]
    ELSE IF gens.state.tag = "Ended" /\ gens.state.gen < generation
    THEN IF last_range_end(gens) # 0 /\ last_range_end(gens) > head
         THEN [res |-> "InvalidGenerationState", gens |-> gens]
         ELSE [res |-> "ok",
               gens |-> [ranges |-> RangeInsert(gens.ranges, head + 1, head + 2, generation),
                         state |-> StInProgress(generation, head + 1)]]
    ELSE [res |-> "InvalidGeneration", gens |-> gens]

\* start_new_generation_at without the comparison of head with the end of the
\* last range
start_below_last_range(gens, head, generation) ==
    IF gens.state.tag = "None"
    THEN IF head # 0
         THEN [res |-> "InvalidGenerationState", gens |-> gens]
         ELSE [res |-> "ok",
               gens |-> [ranges |-> RangeInsert(gens.ranges, head, head + 1, generation),
                         state |-> StInProgress(generation, head)]]
    ELSE IF gens.state.tag = "Ended" /\ gens.state.gen < generation
    THEN [res |-> "ok",
          gens |-> [ranges |-> RangeInsert(gens.ranges, head, head + 1, generation),
                    state |-> StInProgress(generation, head)]]
    ELSE [res |-> "InvalidGeneration", gens |-> gens]

start_new_generation_at(gens, head, generation) ==
    IF gens.state.tag = "None"
    THEN IF head # 0
         THEN [res |-> "InvalidGenerationState", gens |-> gens]
         ELSE [res |-> "ok",
               gens |-> [ranges |-> RangeInsert(gens.ranges, head, head + 1, generation),
                         state |-> StInProgress(generation, head)]]
    ELSE IF gens.state.tag = "Ended" /\ gens.state.gen < generation
    THEN IF last_range_end(gens) # 0 /\ last_range_end(gens) > head
         THEN [res |-> "InvalidGenerationState", gens |-> gens]
         ELSE [res |-> "ok",
               gens |-> [ranges |-> RangeInsert(gens.ranges, head, head + 1, generation),
                         state |-> StInProgress(generation, head)]]
    ELSE [res |-> "InvalidGeneration", gens |-> gens]

\* end_current_generation_at refusing to end a generation without fragments
end_unless_empty(gens, head) ==
    IF gens.state.tag = "InProgress" /\ head > gens.state.start
    THEN [res |-> "ok",
          gens |-> [ranges |-> RangeInsert(gens.ranges, gens.state.start, head, gens.state.gen),
                    state |-> StEnded(gens.state.gen)]]
    ELSE [res |-> "InvalidGenerationState", gens |-> gens]

\* end_current_generation_at always taking the arm of the empty generation
end_always_empty(gens, head) ==
    IF gens.state.tag = "InProgress"
    THEN [res |-> "ok",
          gens |-> [ranges |-> RangeRemove(gens.ranges, gens.state.start, gens.state.start + 1),
                    state |-> StEnded(gens.state.gen)]]
    ELSE [res |-> "InvalidGenerationState", gens |-> gens]

\* end_current_generation_at recording the whole table, from index 1, as the
\* generation that ends
end_from_first(gens, head) ==
    IF gens.state.tag = "InProgress" /\ head > gens.state.start
    THEN [res |-> "ok",
          gens |-> [ranges |-> RangeInsert(gens.ranges, 1, head, gens.state.gen),
                    state |-> StEnded(gens.state.gen)]]
    ELSE IF gens.state.tag = "InProgress"
    THEN [res |-> "ok",
          gens |-> [ranges |-> RangeRemove(gens.ranges, gens.state.start, gens.state.start + 1),
                    state |-> StEnded(gens.state.gen)]]
    ELSE [res |-> "InvalidGenerationState", gens |-> gens]

\* Generations::end_current_generation_at
\* end_current_generation_at leaving the singleton of an empty generation in
\* the map
end_keep_placeholder(gens, head) ==
    IF gens.state.tag = "InProgress" /\ head > gens.state.start
    THEN [res |-> "ok",
          gens |-> [ranges |-> RangeInsert(gens.ranges, gens.state.start, head, gens.state.gen),
                    state |-> StEnded(gens.state.gen)]]
    ELSE IF gens.state.tag = "InProgress"
    THEN [res |-> "ok", gens |-> [ranges |-> gens.ranges, state |-> StEnded(gens.state.gen)]]
    ELSE [res |-> "InvalidGenerationState", gens |-> gens]

\* end_current_generation_at accepting a second end of an ended generation
end_twice(gens, head) ==
    IF gens.state.tag = "InProgress" /\ head > gens.state.start
    THEN [res |-> "ok",
          gens |-> [ranges |-> RangeInsert(gens.ranges, gens.state.start, head, gens.state.gen),
                    state |-> StEnded(gens.state.gen)]]
    ELSE IF gens.state.tag = "InProgress"
    THEN [res |-> "ok",
          gens |-> [ranges |-> RangeRemove(gens.ranges, gens.state.start, gens.state.start + 1),
                    state |-> StEnded(gens.state.gen)]]
    ELSE IF gens.state.tag = "Ended"
    THEN [res |-> "ok", gens |-> gens]
    ELSE [res |-> "InvalidGenerationState", gens |-> gens]

\* end_current_generation_at recording the range up to and including head
end_inclusive(gens, head) ==
    IF gens.state.tag = "InProgress" /\ head > gens.state.start
    THEN [res |-> "ok",
          gens |-> [ranges |-> RangeInsert(gens.ranges, gens.state.start, head + 1, gens.state.gen),
                    state |-> StEnded(gens.state.gen)]]
    ELSE IF gens.state.tag = "InProgress"
    THEN [res |-> "ok",
          gens |-> [ranges |-> RangeRemove(gens.ranges, gens.state.start, gens.state.start + 1),
                    state |-> StEnded(gens.state.gen)]]
    ELSE [res |-> "InvalidGenerationState", gens |-> gens]

end_current_generation_at(gens, head) ==
    IF gens.state.tag = "InProgress" /\ head > gens.state.start
    THEN [res |-> "ok",
          gens |-> [ranges |-> RangeInsert(gens.ranges, gens.state.start, head, gens.state.gen),
                    state |-> StEnded(gens.state.gen)]]
    ELSE IF gens.state.tag = "InProgress"
    THEN [res |-> "ok",
          gens |-> [ranges |-> RangeRemove(gens.ranges, gens.state.start, gens.state.start + 1),
                    state |-> StEnded(gens.state.gen)]]
    ELSE [res |-> "InvalidGenerationState", gens |-> gens]

\* ------------------------------------------------------ the sidecar encoding
RECURSIVE RunsFrom(_, _)
\* RangeMap::iter from index i on: the maximal runs (start, end, value) in order
RunsFrom(ranges, i) ==
    IF i > MaxHead THEN <<>>
    ELSE IF ranges[i] = NoGen THEN RunsFrom(ranges, i + 1)
    ELSE LET e == CHOOSE j \in (i + 1)..(MaxHead + 1) :
                      /\ \A k \in i..(j - 1) : ranges[k] = ranges[i]
                      /\ (j <= MaxHead => ranges[j] # ranges[i])
         IN  <<[start |-> i, end |-> e, gen |-> ranges[i]]>> \o RunsFrom(ranges, e)

\* RangeMap::iter stopping after the first run
RangeIter_first(ranges) ==
    IF RunsFrom(ranges, 0) = <<>> THEN <<>> ELSE <<Head(RunsFrom(ranges, 0))>>

\* RangeMap::iter
RangeIter(ranges) == RunsFrom(ranges, 0)

\* the generations file does not exist
NoFile == [state |-> [tag |-> "absent", gen |-> 0, start |-> 0], entries |-> <<>>]

\* Encode for Generations writing the state of a new registry
Generations_encode_stateless(gens) == [state |-> StNone, entries |-> RunsFrom(gens.ranges, 0)]

\* impl Encode for Generations: the state, then the ranges as a list
Generations_encode(gens) == [state |-> gens.state, entries |-> RangeIter(gens.ranges)]

RECURSIVE InsertAll(_, _)
\* the loop of Decode: each entry inserted in list order
InsertAll(ranges, entries) ==
    IF entries = <<>> THEN ranges
    ELSE InsertAll(RangeInsert(ranges, Head(entries).start, Head(entries).end, Head(entries).gen),
                   Tail(entries))

\* impl Decode for Generations: "panic" when an entry is an empty range
\* (RangeMap::insert asserts start < end), "err" when a zipped pair differs
Generations_decode(bytes) ==
    IF \E k \in 1..Len(bytes.entries) : bytes.entries[k].start >= bytes.entries[k].end
    THEN [res |-> "panic", gens |-> Generations_new]
    ELSE LET ranges == InsertAll(EmptyRanges, bytes.entries)
             it == RangeIter(ranges)
             n == IF Len(it) < Len(bytes.entries) THEN Len(it) ELSE Len(bytes.entries)
         IN  IF \A k \in 1..n : it[k] = bytes.entries[k]
             THEN [res |-> "ok", gens |-> [ranges |-> ranges, state |-> bytes.state]]
             ELSE [res |-> "err", gens |-> Generations_new]

\* ------------------------------------------------ the store (color_table.rs)
VARIABLES
    table,      \* the records written after the magic header, by index (1..)
    head,       \* file.1: the index of the next fragment
    disk,       \* records in the file itself, the header included
    buffered,   \* records still in the BufWriter
    buffer_size,\* config.buffer_size, in bytes
    gens,       \* generations: the registry
    sidecar,    \* the generations file: NoFile or an encoded registry
    generation_lock, \* the thread holding generation_lock, or NoThread
    origin,     \* how the store was constructed: "new" or "load"
    limit,      \* the bound on head in this run
    wpc, wgen, wres,    \* callers of with_generation: place, argument, last result
    tpc, tfrag, ret,    \* closure threads: place, fragment to write; the last result
    rpc, rlen, ridx, rout, rqid, \* readers: place, mapped records, iterator, output
    spc,        \* the caller of sync: place
    log,        \* history: what the append that returned each index was called with
    returned,   \* history: the generations whose with_generation has returned Ok
    pre,        \* history: table, ranges and head when the latest generation started
    rseen,      \* history: `returned` when the reader called map
    rold,       \* history: the reader's view existed when the latest generation started
    targ,       \* history: the arguments of the closure thread's call in progress,
                \* and the head its parent check saw
    quiet       \* history: "synced" when a sync has returned and nothing was appended,
                \* started or ended since its flush; "flushed" inside such a sync

vars == <<table, head, disk, buffered, buffer_size, gens, sidecar, generation_lock,
          origin, limit, wpc, wgen, wres, tpc, tfrag, ret, rpc, rlen, ridx, rout, rqid,
          spc, log, returned, pre, rseen, rold, targ, quiet>>

storeVars == <<table, head, disk, buffered, buffer_size, gens, sidecar, origin, limit>>
writerVars == <<generation_lock, wpc, wgen, wres>>
workerVars == <<tpc, tfrag, ret>>
readerVars == <<rpc, rlen, ridx, rout, rqid>>
histVars == <<log, returned, pre, rseen, rold, targ>>

\* BufWriter::write_all of one record: into the buffer when it fits with room
\* to spare, else (write_all_cold) the buffer is flushed first if the record
\* does not fit, and a record as large as the buffer goes straight to the file
BufWriter_write_all(d, b, cap) ==
    LET spare == cap - RecordSize * b IN
    IF RecordSize < spare
    THEN [disk |-> d, buffered |-> b + 1]
    ELSE LET d1 == IF RecordSize > spare THEN d + b ELSE d
             b1 == IF RecordSize > spare THEN 0 ELSE b
         IN  IF RecordSize >= cap
             THEN [disk |-> d1 + 1, buffered |-> b1]
             ELSE [disk |-> d1, buffered |-> b1 + 1]

\* BufWriter::flush writing the buffer out without emptying it
BufWriter_flush_keep(d, b) == [disk |-> d + b, buffered |-> b]

\* BufWriter::flush emptying the buffer without writing it out
BufWriter_flush_drop(d, b) == [disk |-> d, buffered |-> 0]

\* BufWriter::flush
BufWriter_flush(d, b) == [disk |-> d + b, buffered |-> 0]

\* config.buffer_size: the default, a buffer of one record, and one of two
BufferSizes == {RecordSize, 2 * RecordSize, BUFFER_SIZE}

\* a directory holding the table and the sidecar of a store whose n generations
\* 0..n-1 each appended one root fragment and were ended and synced; the
\* generation of an empty table (n = 0) appended nothing
Directory(n) ==
    [len |-> RecordSize * (n + 1),
     magic |-> TRUE,
     records |-> [i \in 1..n |-> Fragment(0, 1)],
     sidecar |-> [state |-> StEnded(IF n = 0 THEN 0 ELSE n - 1),
                  entries |-> [i \in 1..n |-> [start |-> i, end |-> i + 1, gen |-> i - 1]]]]

Directories == {Directory(n) : n \in 0..MaxLoaded}

NoLog == [op |-> "none", parent |-> 0, color |-> 0, gen |-> NoGen, seen |-> 0]
NoArg == [parent |-> 0, color |-> 0, seen |-> 0]
NoIdx == -1
NoRet == [kind |-> "none", id |-> 0]
NoPre == [valid |-> FALSE, table |-> <<>>, ranges |-> EmptyRanges, head |-> 0]

ThreadsInit ==
    /\ generation_lock = NoThread
    /\ wpc = [w \in Writers |-> "idle"]
    /\ wgen = [w \in Writers |-> 0]
    /\ wres = [w \in Writers |-> "none"]
    /\ tpc = [t \in Workers |-> "idle"]
    /\ tfrag = [t \in Workers |-> Fragment(0, 0)]
    /\ ret = NoRet
    /\ rpc = [r \in Readers |-> "idle"]
    /\ rlen = [r \in Readers |-> 0]
    /\ ridx = [r \in Readers |-> 0]
    /\ rout = [r \in Readers |-> <<>>]
    /\ rqid = [r \in Readers |-> 0]
    /\ spc = "idle"
    /\ log = [i \in Idx |-> NoLog]
    /\ returned = {}
    /\ pre = NoPre
    /\ rseen = [r \in Readers |-> {}]
    /\ rold = [r \in Readers |-> FALSE]
    /\ targ = [t \in Workers |-> NoArg]
    /\ quiet = "no"

\* ColorTable::new: the file truncated, the magic header written through the
\* BufWriter, head 1, a new registry; the generations file is not touched
ColorTable_new(cap) ==
    /\ table = <<>>
    /\ head = 1
    /\ disk = BufWriter_write_all(0, 0, cap).disk
    /\ buffered = BufWriter_write_all(0, 0, cap).buffered
    /\ buffer_size = cap
    /\ gens = Generations_new
    /\ sidecar = NoFile
    /\ origin = "new"

\* ColorTable::load: the length and magic checks, head from the file length,
\* the registry decoded from the generations file
ColorTable_load(dir, cap) ==
    /\ dir.len % RecordSize = 0
    /\ dir.len >= RecordSize
    /\ dir.magic
    /\ Generations_decode(dir.sidecar).res = "ok"
    /\ table = dir.records
    /\ head = dir.len \div RecordSize
    /\ disk = dir.len \div RecordSize
    /\ buffered = 0
    /\ buffer_size = cap
    /\ gens = Generations_decode(dir.sidecar).gens
    /\ sidecar = dir.sidecar
    /\ origin = "load"

Stores ==
    \E cap \in BufferSizes :
          \/ ColorTable_new(cap)
          \/ \E dir \in Directories : ColorTable_load(dir, cap)

Init ==
    /\ ThreadsInit
    /\ Stores
    /\ limit = MaxReadHead

InitSession ==
    /\ ThreadsInit
    /\ Stores
    /\ limit = MaxHead

\* ---------------------------------------------------------- with_generation
\* with_generation_lock taking the mutex whoever holds it
with_generation_lock_unguarded(w, g) ==
    /\ wpc[w] = "idle"
    /\ generation_lock' = w
    /\ wpc' = [wpc EXCEPT ![w] = "locked"]
    /\ wgen' = [wgen EXCEPT ![w] = g]
    /\ wres' = [wres EXCEPT ![w] = "none"]
    /\ UNCHANGED <<storeVars, workerVars, readerVars, spc, histVars>>
    /\ UNCHANGED quiet

\* let _guard = self.generation_lock.lock()
with_generation_lock(w, g) ==
    /\ wpc[w] = "idle"
    /\ generation_lock = NoThread
    /\ generation_lock' = w
    /\ wpc' = [wpc EXCEPT ![w] = "locked"]
    /\ wgen' = [wgen EXCEPT ![w] = g]
    /\ wres' = [wres EXCEPT ![w] = "none"]
    /\ UNCHANGED <<storeVars, workerVars, readerVars, spc, histVars>>
    /\ UNCHANGED quiet

\* self.generation_lock.lock() finding the mutex held: the thread parks
with_generation_wait(w, g) ==
    /\ wpc[w] = "idle"
    /\ generation_lock # NoThread
    /\ wpc' = [wpc EXCEPT ![w] = "waiting"]
    /\ wgen' = [wgen EXCEPT ![w] = g]
    /\ wres' = [wres EXCEPT ![w] = "none"]
    /\ UNCHANGED <<storeVars, generation_lock, workerVars, readerVars, spc, histVars, quiet>>

\* the parked thread is handed the mutex once it is free
with_generation_acquire(w) ==
    /\ wpc[w] = "waiting"
    /\ generation_lock = NoThread
    /\ generation_lock' = w
    /\ wpc' = [wpc EXCEPT ![w] = "locked"]
    /\ UNCHANGED <<storeVars, wgen, wres, workerVars, readerVars, spc, histVars, quiet>>

\* self.generations.write().start_new_generation_at(self.file.lock().1, generation)?
\* on an error the call returns it and the guard is dropped
with_generation_start(w) ==
    /\ wpc[w] = "locked"
    /\ LET r == start_new_generation_at(gens, head, wgen[w]) IN
       IF r.res = "ok"
       THEN /\ gens' = r.gens
            /\ wpc' = [wpc EXCEPT ![w] = "closure"]
            /\ pre' = [valid |-> TRUE, table |-> table, ranges |-> gens.ranges, head |-> head]
            /\ rold' = [x \in Readers |-> rpc[x] \in {"mapped", "iter", "done"}]
            /\ UNCHANGED <<generation_lock, wres>>
       ELSE /\ wres' = [wres EXCEPT ![w] = r.res]
            /\ wpc' = [wpc EXCEPT ![w] = "idle"]
            /\ generation_lock' = NoThread
            /\ UNCHANGED <<gens, pre, rold>>
    /\ UNCHANGED <<table, head, disk, buffered, buffer_size, sidecar, origin, limit, wgen,
                   workerVars, readerVars, spc, log, returned, rseen, targ>>
    /\ quiet' = IF start_new_generation_at(gens, head, wgen[w]).res = "ok" THEN "no" ELSE quiet

\* with_generation ending the generation while threads of the closure are
\* still between their parent check and their write
with_generation_end_unjoined(w) ==
    /\ wpc[w] = "closure"
    /\ LET r == end_current_generation_at(gens, head) IN
       IF r.res = "ok"
       THEN /\ gens' = r.gens
            /\ wpc' = [wpc EXCEPT ![w] = "ended"]
            /\ UNCHANGED <<generation_lock, wres>>
       ELSE /\ wres' = [wres EXCEPT ![w] = r.res]
            /\ wpc' = [wpc EXCEPT ![w] = "idle"]
            /\ generation_lock' = NoThread
            /\ UNCHANGED gens
    /\ UNCHANGED <<table, head, disk, buffered, buffer_size, sidecar, origin, limit, wgen,
                   workerVars, readerVars, spc, histVars>>
    /\ quiet' = IF end_current_generation_at(gens, head).res = "ok" THEN "no" ELSE quiet

\* the closure has returned (its threads joined):
\* self.generations.write().end_current_generation_at(self.file.lock().1)?
with_generation_end(w) ==
    /\ wpc[w] = "closure"
    /\ \A t \in Workers : tpc[t] = "idle"
    /\ LET r == end_current_generation_at(gens, head) IN
       IF r.res = "ok"
       THEN /\ gens' = r.gens
            /\ wpc' = [wpc EXCEPT ![w] = "ended"]
            /\ UNCHANGED <<generation_lock, wres>>
       ELSE /\ wres' = [wres EXCEPT ![w] = r.res]
            /\ wpc' = [wpc EXCEPT ![w] = "idle"]
            /\ generation_lock' = NoThread
            /\ UNCHANGED gens
    /\ UNCHANGED <<table, head, disk, buffered, buffer_size, sidecar, origin, limit, wgen,
                   workerVars, readerVars, spc, histVars>>
    /\ quiet' = IF end_current_generation_at(gens, head).res = "ok" THEN "no" ELSE quiet

\* with_generation returning without dropping the guard
with_generation_flush_holding(w) ==
    /\ wpc[w] = "ended"
    /\ disk' = BufWriter_flush(disk, buffered).disk
    /\ buffered' = BufWriter_flush(disk, buffered).buffered
    /\ wres' = [wres EXCEPT ![w] = "ok"]
    /\ wpc' = [wpc EXCEPT ![w] = "idle"]
    /\ returned' = returned \cup {wgen[w]}
    /\ UNCHANGED <<table, head, buffer_size, gens, sidecar, origin, limit, wgen,
                   generation_lock, workerVars, readerVars, spc, log, pre, rseen, rold,
                   targ, quiet>>

\* self.file.lock().0.flush()?; Ok(res), the guard dropped
with_generation_flush(w) ==
    /\ wpc[w] = "ended"
    /\ disk' = BufWriter_flush(disk, buffered).disk
    /\ buffered' = BufWriter_flush(disk, buffered).buffered
    /\ wres' = [wres EXCEPT ![w] = "ok"]
    /\ wpc' = [wpc EXCEPT ![w] = "idle"]
    /\ generation_lock' = NoThread
    /\ returned' = returned \cup {wgen[w]}
    /\ UNCHANGED <<table, head, buffer_size, gens, sidecar, origin, limit, wgen,
                   workerVars, readerVars, spc, log, pre, rseen, rold, targ>>
    /\ UNCHANGED quiet

\* ------------------------------------------------------- GenerationGuard
\* a GenerationGuard exists only while with_generation runs its closure
InSession == \E w \in Writers : wpc[w] = "closure"

Pending == Cardinality({t \in Workers : tpc[t] = "write"})

\* head_fragment_index accepting every id
head_fragment_index_unchecked(color_id) == color_id

\* head_fragment_index accepting the id equal to head
head_fragment_index_inclusive(color_id) ==
    IF color_id <= head THEN color_id ELSE NoIdx

\* head_fragment_index refusing the id of the header record
head_fragment_index_nonzero(color_id) ==
    IF 0 < color_id /\ color_id < head THEN color_id ELSE NoIdx

\* ColorTable::head_fragment_index: Some(color_id) below head, else None
head_fragment_index(color_id) ==
    IF color_id < head THEN color_id ELSE NoIdx

\* write_fragment losing the increment of head
write_fragment_same_head(fragment) ==
    /\ table' = Append(table, fragment)
    /\ disk' = BufWriter_write_all(disk, buffered, buffer_size).disk
    /\ buffered' = BufWriter_write_all(disk, buffered, buffer_size).buffered
    /\ head' = head

\* ColorTable::write_fragment: one critical section of the file lock; the
\* record goes to the end of the written stream, the index returned is head
write_fragment(fragment) ==
    /\ table' = Append(table, fragment)
    /\ disk' = BufWriter_write_all(disk, buffered, buffer_size).disk
    /\ buffered' = BufWriter_write_all(disk, buffered, buffer_size).buffered
    /\ head' = head + 1

\* the fragment new_color_class builds
new_fragment(color) == Fragment(0, color)

\* the fragment fork_color_class builds
fork_fragment(parent_idx, color) == Fragment(parent_idx, color)

\* extend_color_class dropping the parent of the fragment it builds
extend_fragment_rootless(parent_idx, color) == Fragment(0, color)

\* the fragment extend_color_class builds
extend_fragment(parent_idx, color) == Fragment(parent_idx, color)

\* GenerationGuard::new_color_class
new_color_class(t, c) ==
    /\ InSession
    /\ tpc[t] = "idle"
    /\ head + Pending < limit
    /\ write_fragment(new_fragment(c))
    /\ ret' = [kind |-> "ok", id |-> head]
    /\ log' = [log EXCEPT ![head] =
                  [op |-> "new", parent |-> 0, color |-> c, gen |-> wgen[generation_lock],
                   seen |-> head]]
    /\ UNCHANGED <<buffer_size, gens, sidecar, origin, limit, writerVars, tpc, tfrag,
                   readerVars, spc, returned, pre, rseen, rold, targ>>
    /\ quiet' = "no"

\* GenerationGuard::fork_color_class up to the fragment it builds: the parent
\* checked against head in one critical section of the file lock
fork_color_class(t, parent, c) ==
    /\ InSession
    /\ tpc[t] = "idle"
    /\ IF head_fragment_index(parent) = NoIdx
       THEN /\ ret' = [kind |-> "InvalidColorId", id |-> parent]
            /\ UNCHANGED <<tpc, tfrag, targ>>
       ELSE /\ head + Pending < limit
            /\ tpc' = [tpc EXCEPT ![t] = "write"]
            /\ tfrag' = [tfrag EXCEPT ![t] = fork_fragment(head_fragment_index(parent), c)]
            /\ targ' = [targ EXCEPT ![t] = [parent |-> parent, color |-> c, seen |-> head]]
            /\ ret' = NoRet
    /\ UNCHANGED <<storeVars, writerVars, readerVars, spc, log, returned, pre, rseen, rold>>
    /\ UNCHANGED quiet

\* GenerationGuard::extend_color_class up to the fragment it builds
extend_color_class(t, parent, c) ==
    /\ InSession
    /\ tpc[t] = "idle"
    /\ IF head_fragment_index(parent) = NoIdx
       THEN /\ ret' = [kind |-> "InvalidColorId", id |-> parent]
            /\ UNCHANGED <<tpc, tfrag, targ>>
       ELSE /\ head + Pending < limit
            /\ tpc' = [tpc EXCEPT ![t] = "write"]
            /\ tfrag' = [tfrag EXCEPT ![t] = extend_fragment(head_fragment_index(parent), c)]
            /\ targ' = [targ EXCEPT ![t] = [parent |-> parent, color |-> c, seen |-> head]]
            /\ ret' = NoRet
    /\ UNCHANGED <<storeVars, writerVars, readerVars, spc, log, returned, pre, rseen, rold>>
    /\ UNCHANGED quiet

\* the rest of fork_color_class / extend_color_class: write_fragment(fragment),
\* a second critical section, and the index returned as the ColorId
append_fragment(t) ==
    /\ tpc[t] = "write"
    /\ write_fragment(tfrag[t])
    /\ ret' = [kind |-> "ok", id |-> head]
    /\ tpc' = [tpc EXCEPT ![t] = "idle"]
    /\ tfrag' = [tfrag EXCEPT ![t] = Fragment(0, 0)]
    /\ targ' = [targ EXCEPT ![t] = NoArg]
    /\ log' = [log EXCEPT ![head] =
                  [op |-> "derive", parent |-> targ[t].parent, color |-> targ[t].color,
                   gen |-> wgen[generation_lock], seen |-> targ[t].seen]]
    /\ UNCHANGED <<buffer_size, gens, sidecar, origin, limit, writerVars,
                   readerVars, spc, returned, pre, rseen, rold>>
    /\ quiet' = "no"

\* ------------------------------------------------------------- map, sync
\* ColorTable::map, first statement: self.file.lock().0.flush()?
map_flush(r) ==
    /\ rpc[r] = "idle"
    /\ disk' = BufWriter_flush(disk, buffered).disk
    /\ buffered' = BufWriter_flush(disk, buffered).buffered
    /\ rpc' = [rpc EXCEPT ![r] = "flushed"]
    /\ rseen' = [rseen EXCEPT ![r] = returned]
    /\ UNCHANGED <<table, head, buffer_size, gens, sidecar, origin, limit, writerVars,
                   workerVars, rlen, ridx, rout, rqid, spc, log, returned, pre, rold, targ>>
    /\ UNCHANGED quiet

\* ColorTable::map, second statement: the file mapped at its present length
map_mmap(r) ==
    /\ rpc[r] = "flushed"
    /\ rlen' = [rlen EXCEPT ![r] = disk]
    /\ rpc' = [rpc EXCEPT ![r] = "mapped"]
    /\ rold' = [rold EXCEPT ![r] = FALSE]
    /\ UNCHANGED <<storeVars, writerVars, workerVars, ridx, rout, rqid, spc,
                   log, returned, pre, rseen, targ>>
    /\ UNCHANGED quiet

\* MmapGuard::color_class: the iterator starts at the id if it is below the
\* store's head, else at 0
color_class(r, color_id) ==
    /\ rpc[r] \in {"mapped", "done"}
    /\ ridx' = [ridx EXCEPT ![r] =
                   IF head_fragment_index(color_id) = NoIdx THEN 0
                   ELSE head_fragment_index(color_id)]
    /\ rqid' = [rqid EXCEPT ![r] = color_id]
    /\ rout' = [rout EXCEPT ![r] = <<>>]
    /\ rpc' = [rpc EXCEPT ![r] = "iter"]
    /\ UNCHANGED <<storeVars, writerVars, workerVars, rlen, spc, histVars>>
    /\ UNCHANGED quiet

\* fragment reading the magic header, at index 0, as a fragment
fragment_with_header(r, idx) ==
    IF idx >= rlen[r] THEN Fragment(NoIdx, 0)
    ELSE IF idx = 0 THEN Fragment(0, 1) ELSE table[idx]

\* fragment reading the file as it is now, beyond the mapping
fragment_unmapped(r, idx) ==
    IF idx = 0 \/ idx > Len(table) THEN Fragment(NoIdx, 0) ELSE table[idx]

\* MmapGuard::fragment: None for index 0 and for an index beyond the mapping
fragment(r, idx) ==
    IF idx = 0 \/ idx >= rlen[r] THEN Fragment(NoIdx, 0) ELSE table[idx]

\* ClassIter::next: the end of the iteration, a panic on a missing generation
\* ("bug: missing generation"), or one more pair and the step to the parent
ClassIter_next(r) ==
    /\ rpc[r] = "iter"
    /\ LET frag == fragment(r, ridx[r]) IN
       IF frag.parent_pointer = NoIdx
       THEN /\ rpc' = [rpc EXCEPT ![r] = "done"]
            /\ UNCHANGED <<ridx, rout>>
       ELSE IF find(gens, ridx[r]) = NoGen
       THEN /\ rpc' = [rpc EXCEPT ![r] = "panic"]
            /\ UNCHANGED <<ridx, rout>>
       ELSE /\ rout' = [rout EXCEPT ![r] = Append(@, <<frag.color, find(gens, ridx[r])>>)]
            /\ ridx' = [ridx EXCEPT ![r] = frag.parent_pointer]
            /\ UNCHANGED rpc
    /\ UNCHANGED <<storeVars, writerVars, workerVars, rlen, rqid, spc, histVars>>
    /\ UNCHANGED quiet

\* ClassIter::size_hint: the lower bound 0 at index 0 and 1 elsewhere, the
\* upper bound the generation of the index plus 1, NoGen standing for None
size_hint(r) ==
    [lower |-> IF ridx[r] = 0 THEN 0 ELSE 1,
     upper |-> IF find(gens, ridx[r]) = NoGen THEN NoGen ELSE find(gens, ridx[r]) + 1]

\* the MmapGuard dropped (also by the unwinding of a panic)
drop_view(r) ==
    /\ rpc[r] \in {"mapped", "done", "panic"}
    /\ rpc' = [rpc EXCEPT ![r] = "idle"]
    /\ rlen' = [rlen EXCEPT ![r] = 0]
    /\ ridx' = [ridx EXCEPT ![r] = 0]
    /\ rout' = [rout EXCEPT ![r] = <<>>]
    /\ rqid' = [rqid EXCEPT ![r] = 0]
    /\ rold' = [rold EXCEPT ![r] = FALSE]
    /\ rseen' = [rseen EXCEPT ![r] = {}]
    /\ UNCHANGED <<storeVars, writerVars, workerVars, spc, log, returned, pre, targ>>
    /\ UNCHANGED quiet

\* ColorTable::sync, first statement: self.file.lock().0.flush()?
sync_flush ==
    /\ spc = "idle"
    /\ disk' = BufWriter_flush(disk, buffered).disk
    /\ buffered' = BufWriter_flush(disk, buffered).buffered
    /\ spc' = "flushed"
    /\ UNCHANGED <<table, head, buffer_size, gens, sidecar, origin, limit, writerVars,
                   workerVars, readerVars, histVars>>
    /\ quiet' = IF quiet = "synced" THEN "synced" ELSE "flushed"

\* ColorTable::sync, the rest: the generations file created anew and the
\* registry encoded into it under the read lock
sync_write ==
    /\ spc = "flushed"
    /\ sidecar' = Generations_encode(gens)
    /\ spc' = "idle"
    /\ UNCHANGED <<table, head, disk, buffered, buffer_size, gens, origin, limit, writerVars,
                   workerVars, readerVars, histVars>>
    /\ quiet' = IF quiet = "no" THEN "no" ELSE "synced"

\* ColorTable::load called again on the directory of the store, as it is on
\* disk now, and the handle it returns used from then on (the earlier handle is
\* not dropped, its write buffer not flushed): the length and magic checks,
\* head from the file length, the registry decoded from the generations file,
\* which must exist
reopen ==
    /\ \A w \in Writers : wpc[w] = "idle"
    /\ \A t \in Workers : tpc[t] = "idle"
    /\ \A r \in Readers : rpc[r] = "idle"
    /\ spc = "idle"
    /\ sidecar # NoFile
    /\ LET len == RecordSize * disk
           dec == Generations_decode(sidecar)
       IN  /\ len % RecordSize = 0
           /\ len >= RecordSize
           /\ dec.res = "ok"
           /\ head' = len \div RecordSize
           /\ table' = SubSeq(table, 1, (len \div RecordSize) - 1)
           /\ buffered' = 0
           /\ gens' = dec.gens
    /\ origin' = "load"
    /\ pre' = NoPre
    /\ quiet' = "no"
    /\ UNCHANGED <<disk, buffer_size, sidecar, limit, writerVars, workerVars, readerVars,
                   spc, log, returned, rseen, rold, targ>>

RECURSIVE ClassIter_collect(_, _, _, _)
\* ClassIter::next called to the end on a view of len records, from index idx:
\* the pairs yielded, and whether the iteration ended in the panic
ClassIter_collect(tab, g, len, idx) ==
    IF idx = 0 \/ idx >= len THEN [out |-> <<>>, panic |-> FALSE]
    ELSE IF find(g, idx) = NoGen THEN [out |-> <<>>, panic |-> TRUE]
    ELSE LET rest == ClassIter_collect(tab, g, len, tab[idx].parent_pointer)
         IN  [out |-> << <<tab[idx].color, find(g, idx)>> >> \o rest.out,
              panic |-> rest.panic]

\* map().color_class(id).collect() on a store with table tab, registry g and
\* head hd, nothing else running: the view covers the hd records
collect_class(tab, g, hd, id) ==
    ClassIter_collect(tab, g, hd, IF id < hd THEN id ELSE 0)

\* the steps of the one caller of with_generation
WriterStep ==
    \/ \E w \in {"w1"}, g \in Gens : with_generation_lock(w, g)
    \/ \E w \in {"w1"} : with_generation_start(w)
    \/ \E w \in {"w1"} : with_generation_end(w)
    \/ \E w \in {"w1"} : with_generation_flush(w)

\* the steps of several threads calling with_generation
WritersStep ==
    \/ \E w \in Writers, g \in Gens : with_generation_lock(w, g)
    \/ \E w \in Writers, g \in Gens : with_generation_wait(w, g)
    \/ \E w \in Writers : with_generation_acquire(w)
    \/ \E w \in Writers : with_generation_start(w)
    \/ \E w \in Writers : with_generation_end(w)
    \/ \E w \in Writers : with_generation_flush(w)

\* the steps of the closure threads T
SessionStep(T) ==
    \/ \E t \in T, c \in Colors : new_color_class(t, c)
    \/ \E t \in T, p \in 0..limit, c \in Colors : fork_color_class(t, p, c)
    \/ \E t \in T, p \in 0..limit, c \in Colors : extend_color_class(t, p, c)
    \/ \E t \in T : append_fragment(t)

\* the steps of the readers
ReaderStep ==
    \/ \E r \in Readers : map_flush(r)
    \/ \E r \in Readers : map_mmap(r)
    \/ \E r \in Readers, id \in 0..limit : color_class(r, id)
    \/ \E r \in Readers : ClassIter_next(r)
    \/ \E r \in Readers : drop_view(r)

\* the steps of sync
SyncStep ==
    \/ sync_flush
    \/ sync_write

\* the steps of a thread that maps the table and drops the view
ViewStep ==
    \/ \E r \in Readers : map_flush(r)
    \/ \E r \in Readers : map_mmap(r)
    \/ \E r \in Readers : drop_view(r)

\* generations whose closure runs one thread, with sync and map beside them
NextDisk ==
    \/ WriterStep
    \/ SessionStep({"t1"})
    \/ SyncStep
    \/ ViewStep

SpecDisk == Init /\ [][NextDisk]_vars

\* generations whose closure runs one thread, with a reader beside them
Next ==
    \/ WriterStep
    \/ SessionStep({"t1"})
    \/ ReaderStep

Spec == Init /\ [][Next]_vars

\* generations whose closure runs one thread, with sync, and the store
\* dropped and loaded again between them
NextReopen ==
    \/ WriterStep
    \/ SessionStep({"t1"})
    \/ SyncStep
    \/ reopen

SpecReopen == Init /\ [][NextReopen]_vars

\* several threads calling with_generation, the closure running one thread
NextWriters ==
    \/ WritersStep
    \/ SessionStep({"t1"})

SpecWriters == Init /\ [][NextWriters]_vars

\* the scheduling of the callers: a thread that holds the lock takes its next
\* step, the closure returns (its pending write is done, the generation ended
\* and flushed), and a parked thread is handed the mutex though others may
\* take it first finitely often (parking_lot unlocks fairly in the end)
FairWriters ==
    /\ \A w \in Writers : WF_vars(with_generation_start(w))
    /\ \A w \in Writers : WF_vars(with_generation_end(w))
    /\ \A w \in Writers : WF_vars(with_generation_flush(w))
    /\ \A w \in Writers : SF_vars(with_generation_acquire(w))
    /\ WF_vars(append_fragment("t1"))

SpecWritersFair == Init /\ [][NextWriters]_vars /\ FairWriters

\* ------------------------------------------------------- the three locks
\* The calls of one store cut at every lock acquisition: generation_lock
\* (Mutex), generations (RwLock) and file (Mutex). A thread's position says
\* what it holds: a thread at "wait_x" has called and is parked on the lock
\* of x, the guards of parking_lot being dropped at the end of the statement
\* that took them. What a call returns to its caller is not kept, and the
\* arguments of a call are forgotten when it has used them.
FileHolders ==
    {w \in Writers : wpc[w] \in {"start", "end", "flush"}}
        \cup {t \in Workers : tpc[t] \in {"check", "append"}}
        \cup {r \in Readers : rpc[r] \in {"map_flush", "map_file", "class"}}
        \cup (IF spc = "flush" THEN {"sync"} ELSE {})

GenerationsWriters ==
    {w \in Writers : wpc[w] \in {"wait_start_file", "start", "wait_end_file", "end"}}

GenerationsReaders ==
    {r \in Readers : rpc[r] = "next"} \cup (IF spc = "encode" THEN {"sync"} ELSE {})

\* the writers parked on the generations lock: parking_lot's RwLock is
\* task-fair, a reader blocks while a writer waits
GenerationsParked ==
    {w \in Writers : wpc[w] \in {"wait_start_registry", "wait_end_registry"}}

\* a writer moving from one position to the next, nothing else changing
writer_moves(w, from, to) ==
    /\ wpc[w] = from
    /\ wpc' = [wpc EXCEPT ![w] = to]
    /\ UNCHANGED <<storeVars, generation_lock, wgen, wres, workerVars, readerVars, spc,
                   histVars, quiet>>

worker_moves(t, from, to) ==
    /\ tpc[t] = from
    /\ tpc' = [tpc EXCEPT ![t] = to]
    /\ UNCHANGED <<storeVars, writerVars, tfrag, ret, readerVars, spc, histVars, quiet>>

reader_moves(r, from, to) ==
    /\ rpc[r] = from
    /\ rpc' = [rpc EXCEPT ![r] = to]
    /\ UNCHANGED <<storeVars, writerVars, workerVars, rlen, ridx, rout, rqid, spc,
                   histVars, quiet>>

sync_moves(from, to) ==
    /\ spc = from
    /\ spc' = to
    /\ UNCHANGED <<storeVars, writerVars, workerVars, readerVars, histVars, quiet>>

\* with_generation(generation, f) called
generation_call(w, g) ==
    /\ wpc[w] = "idle"
    /\ wpc' = [wpc EXCEPT ![w] = "wait_generation"]
    /\ wgen' = [wgen EXCEPT ![w] = g]
    /\ UNCHANGED <<storeVars, generation_lock, wres, workerVars, readerVars, spc, histVars, quiet>>

\* let _guard = self.generation_lock.lock()
generation_acquire(w) ==
    /\ wpc[w] = "wait_generation"
    /\ generation_lock = NoThread
    /\ generation_lock' = w
    /\ wpc' = [wpc EXCEPT ![w] = "wait_start_registry"]
    /\ UNCHANGED <<storeVars, wgen, wres, workerVars, readerVars, spc, histVars, quiet>>

\* self.generations.write(), the receiver of start_new_generation_at
start_generations_acquire(w) ==
    /\ GenerationsWriters = {} /\ GenerationsReaders = {}
    /\ writer_moves(w, "wait_start_registry", "wait_start_file")

\* self.file.lock().1, the argument, taken with the write lock held
start_file_acquire(w) ==
    /\ FileHolders = {}
    /\ writer_moves(w, "wait_start_file", "start")

\* start_new_generation_at under both locks, which the end of the statement
\* drops; an error returns from with_generation and drops _guard
start_locked(w) ==
    /\ wpc[w] = "start"
    /\ IF start_new_generation_at(gens, head, wgen[w]).res = "ok"
       THEN /\ gens' = start_new_generation_at(gens, head, wgen[w]).gens
            /\ wpc' = [wpc EXCEPT ![w] = "closure"]
            /\ UNCHANGED generation_lock
       ELSE /\ wpc' = [wpc EXCEPT ![w] = "idle"]
            /\ generation_lock' = NoThread
            /\ UNCHANGED gens
    /\ wgen' = [wgen EXCEPT ![w] = 0]
    /\ UNCHANGED <<table, head, disk, buffered, buffer_size, sidecar, origin, limit, wres,
                   workerVars, readerVars, spc, histVars, quiet>>

\* f(GenerationGuard { table: self }) returns, its threads joined
closure_return(w) ==
    /\ \A t \in Workers : tpc[t] = "idle"
    /\ writer_moves(w, "closure", "wait_end_registry")

\* self.generations.write(), the receiver of end_current_generation_at
end_generations_acquire(w) ==
    /\ GenerationsWriters = {} /\ GenerationsReaders = {}
    /\ writer_moves(w, "wait_end_registry", "wait_end_file")

\* self.file.lock().1, the argument, taken with the write lock held
end_file_acquire(w) ==
    /\ FileHolders = {}
    /\ writer_moves(w, "wait_end_file", "end")

\* end_current_generation_at under both locks
end_locked(w) ==
    /\ wpc[w] = "end"
    /\ IF end_current_generation_at(gens, head).res = "ok"
       THEN /\ gens' = end_current_generation_at(gens, head).gens
            /\ wpc' = [wpc EXCEPT ![w] = "wait_flush_file"]
            /\ UNCHANGED generation_lock
       ELSE /\ wpc' = [wpc EXCEPT ![w] = "idle"]
            /\ generation_lock' = NoThread
            /\ UNCHANGED gens
    /\ UNCHANGED <<table, head, disk, buffered, buffer_size, sidecar, origin, limit, wgen, wres,
                   workerVars, readerVars, spc, histVars, quiet>>

\* self.file.lock() of the flush
flush_file_acquire(w) ==
    /\ FileHolders = {}
    /\ writer_moves(w, "wait_flush_file", "flush")

\* with_generation returning Ok(res) with the generation lock still taken
flush_locked_holding(w) ==
    /\ wpc[w] = "flush"
    /\ disk' = BufWriter_flush(disk, buffered).disk
    /\ buffered' = BufWriter_flush(disk, buffered).buffered
    /\ wpc' = [wpc EXCEPT ![w] = "idle"]
    /\ UNCHANGED <<table, head, buffer_size, gens, sidecar, origin, limit, generation_lock, wgen,
                   wres, workerVars, readerVars, spc, histVars, quiet>>

\* .0.flush()? under the file lock, then Ok(res): _guard dropped
flush_locked(w) ==
    /\ wpc[w] = "flush"
    /\ disk' = BufWriter_flush(disk, buffered).disk
    /\ buffered' = BufWriter_flush(disk, buffered).buffered
    /\ wpc' = [wpc EXCEPT ![w] = "idle"]
    /\ generation_lock' = NoThread
    /\ UNCHANGED <<table, head, buffer_size, gens, sidecar, origin, limit, wgen, wres,
                   workerVars, readerVars, spc, histVars, quiet>>

\* new_color_class(color) called in the closure: the fragment built, then
\* write_fragment
new_call(t, c) ==
    /\ InSession
    /\ tpc[t] = "idle"
    /\ head + Cardinality({x \in Workers \ {t} : tpc[x] # "idle"}) < limit
    /\ tpc' = [tpc EXCEPT ![t] = "wait_append"]
    /\ tfrag' = [tfrag EXCEPT ![t] = new_fragment(c)]
    /\ UNCHANGED <<ret, storeVars, writerVars, readerVars, spc, histVars, quiet>>

\* fork_color_class(parent, color) called in the closure
fork_call(t, parent, c) ==
    /\ InSession
    /\ tpc[t] = "idle"
    /\ head + Cardinality({x \in Workers \ {t} : tpc[x] # "idle"}) < limit
    /\ tpc' = [tpc EXCEPT ![t] = "wait_check"]
    /\ targ' = [targ EXCEPT ![t] = [parent |-> parent, color |-> c, seen |-> 0]]
    /\ UNCHANGED <<ret, storeVars, writerVars, tfrag, readerVars, spc, log, returned, pre, rseen,
                   rold, quiet>>

\* self.file.lock() of head_fragment_index
check_file_acquire(t) ==
    /\ FileHolders = {}
    /\ worker_moves(t, "wait_check", "check")

\* head_fragment_index under the file lock: InvalidColorId returned, or the
\* fragment built
check_locked(t) ==
    /\ tpc[t] = "check"
    /\ IF head_fragment_index(targ[t].parent) = NoIdx
       THEN /\ tpc' = [tpc EXCEPT ![t] = "idle"]
            /\ UNCHANGED tfrag
       ELSE /\ tfrag' = [tfrag EXCEPT ![t] =
                            fork_fragment(head_fragment_index(targ[t].parent), targ[t].color)]
            /\ tpc' = [tpc EXCEPT ![t] = "wait_append"]
    /\ targ' = [targ EXCEPT ![t] = NoArg]
    /\ UNCHANGED <<ret, storeVars, writerVars, readerVars, spc, log, returned, pre, rseen, rold, quiet>>

\* self.file.lock() of write_fragment
append_file_acquire(t) ==
    /\ FileHolders = {}
    /\ worker_moves(t, "wait_append", "append")

\* write_fragment under the file lock
append_locked(t) ==
    /\ tpc[t] = "append"
    /\ write_fragment(tfrag[t])
    /\ tpc' = [tpc EXCEPT ![t] = "idle"]
    /\ tfrag' = [tfrag EXCEPT ![t] = Fragment(0, 0)]
    /\ UNCHANGED <<ret, buffer_size, gens, sidecar, origin, limit, writerVars, readerVars, spc,
                   histVars, quiet>>

\* map() called
map_call(r) == reader_moves(r, "idle", "wait_map_flush")

\* self.file.lock() of the flush in map
map_flush_acquire(r) ==
    /\ FileHolders = {}
    /\ reader_moves(r, "wait_map_flush", "map_flush")

\* .0.flush()? under the file lock
map_flush_locked(r) ==
    /\ rpc[r] = "map_flush"
    /\ disk' = BufWriter_flush(disk, buffered).disk
    /\ buffered' = BufWriter_flush(disk, buffered).buffered
    /\ rpc' = [rpc EXCEPT ![r] = "wait_map_file"]
    /\ UNCHANGED <<table, head, buffer_size, gens, sidecar, origin, limit, writerVars,
                   workerVars, rlen, ridx, rout, rqid, spc, histVars, quiet>>

\* self.file.lock() of get_ref().try_clone()
map_file_acquire(r) ==
    /\ FileHolders = {}
    /\ reader_moves(r, "wait_map_file", "map_file")

\* the file mapped at its present length, the MmapGuard returned
map_file_locked(r) ==
    /\ rpc[r] = "map_file"
    /\ rlen' = [rlen EXCEPT ![r] = disk]
    /\ rpc' = [rpc EXCEPT ![r] = "mapped"]
    /\ UNCHANGED <<storeVars, writerVars, workerVars, ridx, rout, rqid, spc, histVars, quiet>>

\* color_class(color_id) called on the view
class_call(r, color_id) ==
    /\ rpc[r] \in {"mapped", "done"}
    /\ rqid' = [rqid EXCEPT ![r] = color_id]
    /\ rpc' = [rpc EXCEPT ![r] = "wait_class"]
    /\ UNCHANGED <<storeVars, writerVars, workerVars, rlen, ridx, rout, spc, histVars, quiet>>

\* self.file.lock() of head_fragment_index
class_file_acquire(r) ==
    /\ FileHolders = {}
    /\ reader_moves(r, "wait_class", "class")

\* head_fragment_index under the file lock, the ClassIter returned
class_locked(r) ==
    /\ rpc[r] = "class"
    /\ ridx' = [ridx EXCEPT ![r] =
                   IF head_fragment_index(rqid[r]) = NoIdx THEN 0
                   ELSE head_fragment_index(rqid[r])]
    /\ rqid' = [rqid EXCEPT ![r] = 0]
    /\ rpc' = [rpc EXCEPT ![r] = "iter"]
    /\ UNCHANGED <<storeVars, writerVars, workerVars, rlen, rout, spc, histVars, quiet>>

\* ClassIter::next called: self.map.fragment(&self.idx)? returns None, or the
\* read lock is wanted
next_call(r) ==
    /\ rpc[r] = "iter"
    /\ rpc' = [rpc EXCEPT ![r] =
                  IF fragment(r, ridx[r]).parent_pointer = NoIdx THEN "done" ELSE "wait_next"]
    /\ UNCHANGED <<storeVars, writerVars, workerVars, rlen, ridx, rout, rqid, spc,
                   histVars, quiet>>

\* self.map.color_table().generations.read()
next_generations_acquire(r) ==
    /\ GenerationsWriters = {} /\ GenerationsParked = {}
    /\ reader_moves(r, "wait_next", "next")

\* find under the read lock: the pair, or the panic of expect, whose unwinding
\* drops the lock
next_locked(r) ==
    /\ rpc[r] = "next"
    /\ IF find(gens, ridx[r]) = NoGen
       THEN /\ rpc' = [rpc EXCEPT ![r] = "panic"]
            /\ UNCHANGED ridx
       ELSE /\ ridx' = [ridx EXCEPT ![r] = fragment(r, ridx[r]).parent_pointer]
            /\ rpc' = [rpc EXCEPT ![r] = "iter"]
    /\ UNCHANGED <<storeVars, writerVars, workerVars, rlen, rout, rqid, spc, histVars, quiet>>

\* the MmapGuard dropped
view_drop(r) ==
    /\ rpc[r] \in {"mapped", "done", "panic"}
    /\ rpc' = [rpc EXCEPT ![r] = "idle"]
    /\ rlen' = [rlen EXCEPT ![r] = 0]
    /\ ridx' = [ridx EXCEPT ![r] = 0]
    /\ UNCHANGED <<storeVars, writerVars, workerVars, rout, rqid, spc, histVars, quiet>>

\* sync(None) called
sync_call == sync_moves("idle", "wait_flush")

\* self.file.lock() of the flush in sync
sync_file_acquire ==
    /\ FileHolders = {}
    /\ sync_moves("wait_flush", "flush")

\* .0.flush()? under the file lock
sync_flush_locked ==
    /\ spc = "flush"
    /\ disk' = BufWriter_flush(disk, buffered).disk
    /\ buffered' = BufWriter_flush(disk, buffered).buffered
    /\ spc' = "wait_encode"
    /\ UNCHANGED <<table, head, buffer_size, gens, sidecar, origin, limit, writerVars,
                   workerVars, readerVars, histVars, quiet>>

\* self.generations.read() of the encoding
sync_generations_acquire ==
    /\ GenerationsWriters = {} /\ GenerationsParked = {}
    /\ sync_moves("wait_encode", "encode")

\* the registry encoded into the generations file under the read lock
sync_encode_locked ==
    /\ spc = "encode"
    /\ sidecar' = Generations_encode(gens)
    /\ spc' = "idle"
    /\ UNCHANGED <<table, head, disk, buffered, buffer_size, gens, origin, limit, writerVars,
                   workerVars, readerVars, histVars, quiet>>

MaxLockHead == 2
MaxLockGen == 1

\* a store opened on a table of the header alone, with room for one append
InitLocks ==
    /\ ThreadsInit
    /\ ColorTable_load(Directory(0), BUFFER_SIZE)
    /\ limit = MaxLockHead

\* the steps that begin a call
LockCalls ==
    \/ \E w \in Writers, g \in 1..MaxLockGen : generation_call(w, g)
    \/ \E c \in {MaxColor} : new_call("t1", c)
    \/ \E p \in 0..limit, c \in {MaxColor} : fork_call("t1", p, c)
    \/ \E r \in Readers : map_call(r)
    \/ \E r \in Readers, id \in 0..limit : class_call(r, id)
    \/ \E r \in Readers : next_call(r)
    \/ \E r \in Readers : view_drop(r)
    \/ sync_call

\* the steps that take a lock
LockAcquires ==
    \/ \E w \in Writers : generation_acquire(w)
    \/ \E w \in Writers : start_generations_acquire(w)
    \/ \E w \in Writers : start_file_acquire(w)
    \/ \E w \in Writers : end_generations_acquire(w)
    \/ \E w \in Writers : end_file_acquire(w)
    \/ \E w \in Writers : flush_file_acquire(w)
    \/ check_file_acquire("t1")
    \/ append_file_acquire("t1")
    \/ \E r \in Readers : map_flush_acquire(r)
    \/ \E r \in Readers : map_file_acquire(r)
    \/ \E r \in Readers : class_file_acquire(r)
    \/ \E r \in Readers : next_generations_acquire(r)
    \/ sync_file_acquire
    \/ sync_generations_acquire

\* the steps taken under a lock, which drop it, and the return of a closure
LockBodies ==
    \/ \E w \in Writers : start_locked(w)
    \/ \E w \in Writers : closure_return(w)
    \/ \E w \in Writers : end_locked(w)
    \/ \E w \in Writers : flush_locked(w)
    \/ check_locked("t1")
    \/ append_locked("t1")
    \/ \E r \in Readers : map_flush_locked(r)
    \/ \E r \in Readers : map_file_locked(r)
    \/ \E r \in Readers : class_locked(r)
    \/ \E r \in Readers : next_locked(r)
    \/ sync_flush_locked
    \/ sync_encode_locked

NextLocks == LockCalls \/ LockAcquires \/ LockBodies

SpecLocks == InitLocks /\ [][NextLocks]_vars

\* the steps by which a thread goes on with the call it is in
WriterRuns(w) ==
    \/ generation_acquire(w)
    \/ start_generations_acquire(w)
    \/ start_file_acquire(w)
    \/ start_locked(w)
    \/ closure_return(w)
    \/ end_generations_acquire(w)
    \/ end_file_acquire(w)
    \/ end_locked(w)
    \/ flush_file_acquire(w)
    \/ flush_locked(w)

WorkerRuns(t) ==
    \/ check_file_acquire(t)
    \/ check_locked(t)
    \/ append_file_acquire(t)
    \/ append_locked(t)

ReaderRuns(r) ==
    \/ map_flush_acquire(r)
    \/ map_flush_locked(r)
    \/ map_file_acquire(r)
    \/ map_file_locked(r)
    \/ class_file_acquire(r)
    \/ class_locked(r)
    \/ next_generations_acquire(r)
    \/ next_locked(r)

SyncRuns ==
    \/ sync_file_acquire
    \/ sync_flush_locked
    \/ sync_generations_acquire
    \/ sync_encode_locked

\* parking_lot hands a contended lock over fairly in the end, a thread under
\* a lock runs on, and the closure of a generation returns: a thread in a
\* call, at one position at a time, takes its next step if that step is
\* possible again and again
FairLocks ==
    /\ \A w \in Writers : SF_vars(WriterRuns(w))
    /\ SF_vars(WorkerRuns("t1"))
    /\ \A r \in Readers : SF_vars(ReaderRuns(r))
    /\ SF_vars(SyncRuns)

SpecLocksFair == InitLocks /\ [][NextLocks]_vars /\ FairLocks

\* ------------------------------------------------- opening a directory
MaxEntries == 2
MaxEntryEnd == 3

\* the (start, end, number) triples a generations file may hold, empty and
\* reversed ranges included
Entries == [start : 1..(MaxEntryEnd - 1), end : 1..MaxEntryEnd, gen : Gens]

EntryLists == UNION {[1..n -> Entries] : n \in 0..MaxEntries}

\* the directories load may be pointed at: a table file of any length, its
\* first record the magic header or not (a file shorter than a record has no
\* header), and a generations file, or none
FileLengths == {0, RecordSize \div 2, RecordSize, RecordSize + RecordSize \div 2, 2 * RecordSize}

GenerationsFiles ==
    {NoFile} \cup [state : {StNone, StEnded(0), StInProgress(1, 1)}, entries : EntryLists]

OpenDirectory(l, m, sc) ==
    [len |-> l, magic |-> m,
     records |-> [i \in 1..((l \div RecordSize) - 1) |-> Fragment(0, 1)],
     sidecar |-> sc]

OpenDirectories ==
    {OpenDirectory(l, m, sc) : l \in FileLengths, m \in BOOLEAN, sc \in GenerationsFiles}

\* ColorTable::load without the check of the length against the record size
load_result_any_length(dir) ==
    IF dir.len < RecordSize THEN "UnexpectedEof"
    ELSE IF ~dir.magic THEN "InvalidData"
    ELSE IF dir.sidecar = NoFile THEN "NotFound"
    ELSE IF Generations_decode(dir.sidecar).res = "panic" THEN "panic"
    ELSE IF Generations_decode(dir.sidecar).res = "err" THEN "Deserialization"
    ELSE "ok"

\* ColorTable::load, its outcome: the length check, read_exact of the header
\* and its comparison with TABLE_MAGIC, File::open of the generations file,
\* the decoding of the registry
load_result(dir) ==
    IF dir.len % RecordSize # 0 THEN "InvalidData"
    ELSE IF dir.len < RecordSize THEN "UnexpectedEof"
    ELSE IF ~dir.magic THEN "InvalidData"
    ELSE IF dir.sidecar = NoFile THEN "NotFound"
    ELSE IF Generations_decode(dir.sidecar).res = "panic" THEN "panic"
    ELSE IF Generations_decode(dir.sidecar).res = "err" THEN "Deserialization"
    ELSE "ok"

\* no store yet
InitOpen ==
    /\ ThreadsInit
    /\ table = <<>>
    /\ head = 0
    /\ disk = 0
    /\ buffered = 0
    /\ buffer_size = BUFFER_SIZE
    /\ gens = Generations_new
    /\ sidecar = NoFile
    /\ origin = "closed"
    /\ limit = MaxHead

\* ColorTable::load(dir, config): a store when every check passes, otherwise
\* the error (kept in origin) and no store; the files are left as they were
load(dir, cap) ==
    /\ origin = "closed"
    /\ dir.magic => dir.len >= RecordSize
    /\ origin' = IF load_result(dir) = "ok" THEN "load" ELSE load_result(dir)
    /\ sidecar' = dir.sidecar
    /\ buffer_size' = cap
    /\ IF load_result(dir) = "ok"
       THEN /\ table' = dir.records
            /\ head' = dir.len \div RecordSize
            /\ disk' = dir.len \div RecordSize
            /\ gens' = Generations_decode(dir.sidecar).gens
       ELSE UNCHANGED <<table, head, disk, gens>>
    /\ UNCHANGED <<buffered, limit, writerVars, workerVars, readerVars, spc, histVars, quiet>>

\* load_or_new keeping the table when only the generations file is missing
load_or_new_keeping(dir, cap) ==
    /\ origin = "closed"
    /\ dir.magic => dir.len >= RecordSize
    /\ sidecar' = dir.sidecar
    /\ buffer_size' = cap
    /\ IF load_result(dir) \in {"ok", "NotFound"}
       THEN /\ origin' = "load"
            /\ table' = dir.records
            /\ head' = dir.len \div RecordSize
            /\ disk' = dir.len \div RecordSize
            /\ gens' = IF load_result(dir) = "ok" THEN Generations_decode(dir.sidecar).gens
                       ELSE Generations_new
            /\ UNCHANGED buffered
       ELSE IF load_result(dir) = "panic"
       THEN /\ origin' = "panic"
            /\ UNCHANGED <<table, head, disk, buffered, gens>>
       ELSE /\ origin' = "new"
            /\ table' = <<>>
            /\ head' = 1
            /\ disk' = BufWriter_write_all(0, 0, cap).disk
            /\ buffered' = BufWriter_write_all(0, 0, cap).buffered
            /\ gens' = Generations_new
    /\ UNCHANGED <<limit, writerVars, workerVars, readerVars, spc, histVars, quiet>>

\* ColorTable::load_or_new(dir, config): the store load gives if it returns
\* Ok, else ColorTable::new on the same directory (the table file truncated,
\* the header written through the BufWriter, head 1, a new registry, the
\* generations file left as it is); a panic of load is not caught
load_or_new(dir, cap) ==
    /\ origin = "closed"
    /\ dir.magic => dir.len >= RecordSize
    /\ sidecar' = dir.sidecar
    /\ buffer_size' = cap
    /\ IF load_result(dir) = "ok"
       THEN /\ origin' = "load"
            /\ table' = dir.records
            /\ head' = dir.len \div RecordSize
            /\ disk' = dir.len \div RecordSize
            /\ gens' = Generations_decode(dir.sidecar).gens
            /\ UNCHANGED buffered
       ELSE IF load_result(dir) = "panic"
       THEN /\ origin' = "panic"
            /\ UNCHANGED <<table, head, disk, buffered, gens>>
       ELSE /\ origin' = "new"
            /\ table' = <<>>
            /\ head' = 1
            /\ disk' = BufWriter_write_all(0, 0, cap).disk
            /\ buffered' = BufWriter_write_all(0, 0, cap).buffered
            /\ gens' = Generations_new
    /\ UNCHANGED <<limit, writerVars, workerVars, readerVars, spc, histVars, quiet>>

NextOpen ==
    \/ \E dir \in OpenDirectories, cap \in BufferSizes : load(dir, cap)
    \/ \E dir \in OpenDirectories, cap \in BufferSizes : load_or_new(dir, cap)

SpecOpen == InitOpen /\ [][NextOpen]_vars

\* ------------------------------------------- the registry on its own
\* a Generations value driven as the tests of generations.rs drive it, with no
\* table behind it: Generations::new
InitRegistry ==
    /\ ThreadsInit
    /\ table = <<>>
    /\ head = 0
    /\ disk = 0
    /\ buffered = 0
    /\ buffer_size = BUFFER_SIZE
    /\ gens = Generations_new
    /\ sidecar = NoFile
    /\ origin = "registry"
    /\ limit = MaxHead

\* g.start_new_generation_at(head, generation) with any arguments; the result
\* is kept in wres and the head passed in head
registry_start(h, g) ==
    /\ origin = "registry"
    /\ gens' = start_new_generation_at(gens, h, g).gens
    /\ wres' = [wres EXCEPT !["w1"] = start_new_generation_at(gens, h, g).res]
    /\ wgen' = [wgen EXCEPT !["w1"] = g]
    /\ head' = h
    /\ UNCHANGED <<table, disk, buffered, buffer_size, sidecar, origin, limit,
                   generation_lock, wpc, workerVars, readerVars, spc, histVars, quiet>>

\* g.end_current_generation_at(head) with any argument
registry_end(h) ==
    /\ origin = "registry"
    /\ gens' = end_current_generation_at(gens, h).gens
    /\ wres' = [wres EXCEPT !["w1"] = end_current_generation_at(gens, h).res]
    /\ head' = h
    /\ UNCHANGED <<table, disk, buffered, buffer_size, sidecar, origin, limit,
                   generation_lock, wpc, wgen, workerVars, readerVars, spc, histVars, quiet>>

\* bincode::encode_to_vec(&g) then decode_from_slice: the bytes are kept in
\* sidecar and the decoded value takes the place of g
registry_roundtrip ==
    /\ origin = "registry"
    /\ sidecar' = Generations_encode(gens)
    /\ wres' = [wres EXCEPT !["w1"] = Generations_decode(Generations_encode(gens)).res]
    /\ gens' = Generations_decode(Generations_encode(gens)).gens
    /\ UNCHANGED <<table, head, disk, buffered, buffer_size, origin, limit,
                   generation_lock, wpc, wgen, workerVars, readerVars, spc, histVars, quiet>>

NextRegistry ==
    \/ \E h \in Idx, g \in Gens : registry_start(h, g)
    \/ \E h \in 0..(MaxHead + 1) : registry_end(h)
    \/ registry_roundtrip

SpecRegistry == InitRegistry /\ [][NextRegistry]_vars

\* generations whose closure runs several threads
NextSession ==
    \/ WriterStep
    \/ SessionStep(Workers)

SpecSession == InitSession /\ [][NextSession]_vars

\* ------------------------------------------------------------------ claims

\* C1: on a store made by ColorTable::new (head 1, registry None) a call
\* with_generation(0, f) that has returned has returned Ok; the first
\* new_color_class in it returned ColorId(1); and a reader that mapped after the
\* generation returned reads class 1 as exactly [(c, 0)].
C1_FreshStoreRunsGenerationZero ==
    /\ \A w \in Writers :
          (origin = "new" /\ wgen[w] = 0 /\ wres[w] # "none") => wres[w] = "ok"
    /\ (origin = "new" /\ log[1].op # "none") => (log[1].op = "new" /\ log[1].gen = 0)
    /\ \A r \in Readers :
          (origin = "new" /\ rpc[r] = "done" /\ rqid[r] = 1 /\ 0 \in rseen[r])
              => rout[r] = << <<log[1].color, 0>> >>

\* C2: every stored fragment at index i >= 1 has parent_pointer 0 or below i,
\* whatever the interleaving of the closure threads' parent checks and appends.
C2_ParentsPrecede ==
    \A i \in 1..Len(table) :
        table[i].parent_pointer = 0 \/ table[i].parent_pointer < i

\* a fork or extend whose append came after another thread's append had moved
\* head past the value its parent check saw
C2_Witness ==
    \E i \in 1..Len(table) :
        /\ log[i].op = "derive"
        /\ table[i].parent_pointer >= 1
        /\ log[i].seen < i

RECURSIVE ChainOf(_, _, _, _)
\* the pairs of the chain from idx down, read from the first len records of tab
\* with the generations of ranges
ChainOf(tab, ranges, len, idx) ==
    IF idx = 0 \/ idx >= len THEN <<>>
    ELSE << <<tab[idx].color, ranges[idx]>> >>
            \o ChainOf(tab, ranges, len, tab[idx].parent_pointer)

\* C3: in every reachable state, every index i with 1 <= i < head has a
\* generation in the registry: find(i) is not None.
C3_EveryIndexHasGeneration ==
    \A i \in 1..(head - 1) : find(gens, i) # NoGen

\* C4: no reader, whenever it mapped and whatever class it reads, reaches the
\* "bug: missing generation" panic of ClassIter::next.
C4_NoMissingGeneration ==
    \A r \in Readers : rpc[r] # "panic"

\* C5: a reader whose view existed before the latest generation started reads,
\* during and after that generation, nothing for an id appended in it and, for
\* an older id, exactly the chain it read before the generation started.
C5_ViewBeforeGeneration ==
    \A r \in Readers :
        rold[r] =>
            /\ rpc[r] # "panic"
            /\ rpc[r] = "done" =>
                  rout[r] = IF rqid[r] >= pre.head THEN <<>>
                            ELSE ChainOf(pre.table, pre.ranges, rlen[r], rqid[r])

\* a view older than the running generation was asked for an id appended in
\* that generation (the iterator started at the id) and yielded nothing
C5_Witness ==
    \E r \in Readers :
        /\ rold[r] /\ rpc[r] = "done"
        /\ rqid[r] >= pre.head /\ ridx[r] = rqid[r] /\ ridx[r] # 0
        /\ rout[r] = <<>>

\* C6: a reader that called map after with_generation(g, f) had returned reads,
\* for every id an append of f returned, a non-empty class whose first pair is
\* (the colour passed to that append, g).
C6_ViewAfterGeneration ==
    \A r \in Readers :
        (/\ rpc[r] \in {"iter", "done", "panic"}
         /\ log[rqid[r]].op # "none"
         /\ log[rqid[r]].gen \in rseen[r]) =>
            /\ rpc[r] # "panic"
            /\ rpc[r] = "done" => rout[r] # <<>>
            /\ rout[r] # <<>> => rout[r][1] = <<log[rqid[r]].color, log[rqid[r]].gen>>

\* a class of two fragments, its head appended by a fork or extend of a
\* generation that had returned before the reader mapped, read to the end
C6_Witness ==
    \E r \in Readers :
        /\ rpc[r] = "done"
        /\ log[rqid[r]].op = "derive"
        /\ log[rqid[r]].gen \in rseen[r]
        /\ Len(rout[r]) = 2

\* C7: a reader that mapped while generation g is in progress reads nothing for
\* an id appended in g as long as g has not ended.
C7_NothingVisibleBeforeEnd ==
    \A r \in Readers :
        (/\ gens.state.tag = "InProgress"
         /\ ~rold[r]
         /\ rpc[r] \in {"iter", "done"}
         /\ log[rqid[r]].gen = gens.state.gen) =>
            rout[r] = <<>>

\* the reader's next call is not held back by anything
ReaderNotBlocked(r) ==
    /\ rpc[r] = "idle" => ENABLED map_flush(r)
    /\ rpc[r] = "flushed" => ENABLED map_mmap(r)
    /\ rpc[r] \in {"mapped", "done"} => ENABLED color_class(r, 1)
    /\ rpc[r] = "iter" => ENABLED ClassIter_next(r)

C9_ChildThenParent ==
    \A r \in Readers :
        (/\ rpc[r] = "done"
         /\ log[rqid[r]].op = "derive"
         /\ log[rqid[r]].gen \in rseen[r]) =>
            rout[r] = << <<log[rqid[r]].color, log[rqid[r]].gen>> >>
                         \o ChainOf(table, gens.ranges, rlen[r], log[rqid[r]].parent)

\* C9, writing: a step is a fork(p, c) step exactly when it is an extend(p, c)
\* step: the same result and the same successor state for the same arguments.
C9_ForkIsExtend ==
    \A t \in Workers, p \in Idx, c \in Colors :
        fork_color_class(t, p, c) <=> extend_color_class(t, p, c)

\* C9: for every successful fork(p, c) or extend(p, c) of generation g returning
\* n, class(n) read after the generation has ended is (c, g) followed by the
\* class of p, most recent fragment first; fork and extend act alike.
C9_ForkExtendChain == []C9_ChildThenParent /\ [][C9_ForkIsExtend]_vars

\* a class of two fragments made by a fork or extend of a non-null parent,
\* read to the end after its generation returned
C9_Witness ==
    \E r \in Readers :
        /\ rpc[r] = "done"
        /\ log[rqid[r]].op = "derive" /\ log[rqid[r]].parent # 0
        /\ log[rqid[r]].gen \in rseen[r]
        /\ Len(rout[r]) >= 2
        /\ rout[r][1] # rout[r][2]

\* index i belongs to a generation that has ended
ClosedIdx(i) ==
    /\ gens.ranges[i] # NoGen
    /\ ~(gens.state.tag = "InProgress" /\ gens.ranges[i] = gens.state.gen)

RECURSIVE ChainClosed(_)
\* the chain from idx down lies in generations that have ended
ChainClosed(idx) ==
    \/ idx = 0
    \/ /\ idx < head
       /\ ClosedIdx(idx)
       /\ ChainClosed(table[idx].parent_pointer)

\* what one step leaves alone
C10_Frame ==
    /\ Len(table') >= Len(table)
    /\ disk' >= disk
    /\ \A i \in 1..Len(table) : table'[i] = table[i]
    /\ \A i \in Idx : ClosedIdx(i) => gens'.ranges[i] = gens.ranges[i]
    /\ \A i \in Idx :
          (gens'.ranges[i] # gens.ranges[i] /\ gens'.ranges[i] # NoGen) =>
              ~ \E j \in Idx : ClosedIdx(j) /\ gens.ranges[j] = gens'.ranges[i]
    /\ \A id \in 1..(head - 1) :
          ChainClosed(id) =>
              ChainOf(table', gens'.ranges, head', id) = ChainOf(table, gens.ranges, head, id)

\* C10: no step of new_color_class, fork, extend, the start or the end of a
\* generation, sync or map changes a fragment already written, the range or the
\* number of a generation that has ended, or the class of an id whose chain
\* lies in generations that have ended.
C10_AppendOnly == [][C10_Frame]_vars

\* a fragment of an ended generation lies below a fragment that this run
\* appended in a later generation, now ended, synced and mapped
C10_Witness ==
    /\ \E i, j \in 1..Len(table) :
          /\ i < j
          /\ log[j].op # "none"
          /\ gens.ranges[i] # NoGen
          /\ gens.ranges[i] < gens.ranges[j]
    /\ gens.state.tag = "Ended"
    /\ sidecar = Generations_encode(gens)
    /\ \E r \in Readers : rpc[r] = "mapped" /\ rlen[r] = head

\* the ids the appends of the open generation have returned
SessionIds ==
    {i \in Idx : log[i].op # "none" /\ log[i].gen = gens.state.gen}

\* the ids returned in the open generation are the range [start, head), all
\* at least 1, and each index holds the record its call wrote
C11_IdsAreTheRange ==
    /\ head = Len(table) + 1
    /\ gens.state.tag = "InProgress" =>
          /\ SessionIds = gens.state.start..(head - 1)
          /\ \A i \in SessionIds :
                /\ i >= 1
                /\ table[i] = Fragment(log[i].parent, log[i].color)

\* a step that writes a record returns the head it found, on an index no call
\* returned before, and moves head by exactly one; no other step moves head
C11_AppendStep ==
    IF table' # table
    THEN /\ ret'.kind = "ok" /\ ret'.id = head
         /\ head' = head + 1
         /\ log[head].op = "none" /\ log'[head].op # "none"
         /\ table' = Append(table, Fragment(log'[head].parent, log'[head].color))
    ELSE head' = head

\* C11: every append returns the head of its moment and adds exactly 1 to it;
\* under any interleaving of the threads of one session the returned ids are
\* pairwise distinct, at least 1, form the range [start, head), and each
\* returned index holds the record that call wrote.
C11_AppendsSerialize == []C11_IdsAreTheRange /\ [][C11_AppendStep]_vars

\* two appends of one session done while a third call, whose parent check saw
\* an older head, waits to write
C11_Witness ==
    /\ gens.state.tag = "InProgress"
    /\ head - gens.state.start >= 2
    /\ \E t \in Workers : tpc[t] = "write" /\ targ[t].seen < head

\* C12: in every reachable state the ranges of the registry, in increasing
\* index order, carry strictly increasing generation numbers (one range per
\* number, later ranges larger numbers); the numbers need not be consecutive.
C12_RangesIncrease ==
    \A i, j \in Idx :
        (i < j /\ gens.ranges[i] # NoGen /\ gens.ranges[j] # NoGen) =>
            /\ gens.ranges[i] <= gens.ranges[j]
            /\ gens.ranges[i] = gens.ranges[j] =>
                  \A k \in i..j : gens.ranges[k] = gens.ranges[i]

\* two neighbouring ranges whose numbers leave a gap, the later one ended
C12_Witness ==
    /\ gens.state.tag = "Ended"
    /\ \E i \in Idx :
          /\ i + 1 \in Idx
          /\ gens.ranges[i] # NoGen
          /\ gens.ranges[i + 1] > gens.ranges[i] + 1

\* C13: the generation numbers a chain iterator has yielded, from the head of
\* the class towards its root, never increase, whatever calls built the chain.
C13_GenerationsDescend ==
    \A r \in Readers :
        \A k \in 1..(Len(rout[r]) - 1) : rout[r][k][2] >= rout[r][k + 1][2]

\* a class read to the end whose caller made and extended it within one
\* generation: two pairs of the same number
C13_Witness ==
    \E r \in Readers :
        /\ rpc[r] = "done"
        /\ Len(rout[r]) = 2
        /\ log[rqid[r]].op = "derive"
        /\ log[log[rqid[r]].parent].gen = log[rqid[r]].gen
        /\ rout[r][1][2] = rout[r][2][2]

\* a load of the directory after a sync, nothing appended, started or ended
\* since, yields a store on which every class reads as it read before
C14_ReopenStep ==
    (quiet = "synced" /\ reopen) =>
        \A id \in Idx :
            collect_class(table', gens', head', id) = collect_class(table, gens, head, id)

\* C14: after sync on a store and a load of the same directory, class(id) on
\* the loaded store yields, for every ColorId, the (colour, generation)
\* sequence it yields on the original store.
C14_SyncLoadRoundTrip == [][C14_ReopenStep]_vars

\* a store loaded from the directory of this run (no generation started since)
\* whose table holds a class of two fragments appended before the load, and
\* whose registry is the one sync wrote
C14_Witness ==
    /\ origin = "load"
    /\ ~pre.valid
    /\ \E i \in 1..Len(table) :
          /\ log[i].op = "derive"
          /\ Len(collect_class(table, gens, head, i).out) = 2
          /\ ~collect_class(table, gens, head, i).panic

\* a step of a sync that follows a sync, nothing appended, started or ended
\* in between, leaves both files as they are
C15_SecondSyncStep ==
    /\ (quiet = "synced" /\ sync_flush) =>
          /\ disk' = disk
          /\ table' = table
          /\ sidecar' = sidecar
    /\ (quiet = "synced" /\ sync_write) =>
          /\ sidecar' = sidecar
          /\ disk' = disk
          /\ table' = table

\* C15: of two consecutive sync calls with no append and no generation start
\* or end between them, the second writes the generations file the first
\* wrote and leaves the fragment table file unchanged.
C15_SyncIdempotent == [][C15_SecondSyncStep]_vars

\* the second of two such syncs, half way, on a store this run appended to
C15_Witness ==
    /\ quiet = "synced"
    /\ spc = "flushed"
    /\ sidecar.entries # <<>>
    /\ \E i \in 1..Len(table) : log[i].op # "none"

\* the length of the table file in bytes
FileBytes == RecordSize * disk

\* every record written is in the file or in the write buffer, and the file
\* holds whole records
C16_WholeRecords ==
    /\ disk + buffered = Len(table) + 1
    /\ FileBytes % RecordSize = 0

\* after the flush of sync, of map and of the end of with_generation the file
\* holds the header and every fragment appended
C16_FlushStep ==
    (sync_flush \/ (\E r \in Readers : map_flush(r))
                \/ (\E w \in Writers : with_generation_flush(w))) =>
        RecordSize * disk' = RecordSize * (Len(table') + 1)

C17_RejectStep ==
    \A t \in Workers, p \in Idx, c \in Colors :
        (p >= head /\ (fork_color_class(t, p, c) \/ extend_color_class(t, p, c))) =>
            /\ ret' = [kind |-> "InvalidColorId", id |-> p]
            /\ head' = head
            /\ table' = table
            /\ disk' = disk /\ buffered' = buffered
            /\ gens' = gens
            /\ tpc' = tpc

\* C17: fork(p, c) and extend(p, c) with p >= head fail with InvalidColorId(p)
\* and append nothing: head, the write buffer and the registry stay as they are.
C17_InvalidParentRejected == [][C17_RejectStep]_vars

\* a fork or extend of an id not below head has just been rejected, in a
\* generation that has already appended
C17_Witness ==
    /\ ret.kind = "InvalidColorId"
    /\ ret.id >= head
    /\ gens.state.tag = "InProgress"
    /\ head > gens.state.start

\* a class asked for id 0 or for an id not below head has yielded nothing and
\* has not failed
C18_NothingRead ==
    \A r \in Readers :
        (rpc[r] \in {"iter", "done", "panic"} /\ (rqid[r] = 0 \/ rqid[r] >= head)) =>
            /\ rout[r] = <<>>
            /\ rpc[r] # "panic"

\* color_class of such an id starts the iterator at no fragment, and an
\* iterator at no fragment ends without a pair
C18_ReadStep ==
    \A r \in Readers :
        /\ \A id \in Idx :
              (color_class(r, id) /\ (id = 0 \/ id >= head)) =>
                  ridx'[r] = 0 /\ rout'[r] = <<>>
        /\ (ClassIter_next(r) /\ ridx[r] = 0) =>
              rpc'[r] = "done" /\ rout'[r] = rout[r]

\* C18: on every view class(ColorId(0)) yields the empty sequence, and so does
\* class(id) for every id >= head, without an error.
C18_InvalidIdReadsEmpty == []C18_NothingRead /\ [][C18_ReadStep]_vars

\* class(head) read to its end on a view of a table that holds fragments
C18_Witness ==
    \E r \in Readers :
        /\ rpc[r] = "done"
        /\ rqid[r] = head
        /\ rlen[r] >= 2
        /\ rout[r] = <<>>

\* the end of with_generation and its flush, whatever the closure's last call
\* returned: the generation ended with the range [start, head) or none, the
\* buffer written out, Ok returned, the closure's result untouched
C19_ReturnStep ==
    \A w \in Writers :
        /\ with_generation_end(w) =>
              /\ wpc'[w] = "ended"
              /\ gens'.state = StEnded(wgen[w])
              /\ \A i \in Idx :
                    gens'.ranges[i] = IF pre.head <= i /\ i < head THEN wgen[w]
                                      ELSE pre.ranges[i]
              /\ ret' = ret
        /\ with_generation_flush(w) =>
              /\ wres'[w] = "ok"
              /\ gens' = gens /\ gens.state = StEnded(wgen[w])
              /\ buffered' = 0 /\ disk' = head
              /\ ret' = ret

\* C19: with_generation(g, f) ends the generation whatever f returns, an error
\* value included: when it returns the registry state is Ended(g), the range
\* of g is [start, head) or absent if f appended nothing, the write buffer is
\* flushed and f's result is handed back.
C19_GenerationAlwaysEnded == [][C19_ReturnStep]_vars

\* with_generation has returned Ok for a closure that appended and whose last
\* call failed with InvalidColorId
C19_Witness ==
    \E w \in Writers :
        /\ wpc[w] = "idle" /\ wres[w] = "ok"
        /\ ret.kind = "InvalidColorId"
        /\ pre.valid /\ head > pre.head
        /\ gens.state = StEnded(wgen[w])
        /\ find(gens, pre.head) = wgen[w]
        /\ buffered = 0

\* the start of with_generation(g) on a store whose last generation has ended:
\* rejected without a change and without the closure when g is not above the
\* last number, accepted when it is
C20_StartStep ==
    \A w \in Writers :
        (gens.state.tag = "Ended" /\ with_generation_start(w)) =>
            IF wgen[w] <= gens.state.gen
            THEN /\ wres'[w] = "InvalidGeneration"
                 /\ wpc'[w] = "idle"
                 /\ generation_lock' = NoThread
                 /\ gens' = gens
                 /\ table' = table /\ head' = head
                 /\ disk' = disk /\ buffered' = buffered
            ELSE /\ wpc'[w] = "closure"
                 /\ gens'.state = StInProgress(wgen[w], head)

\* C20: with_generation(g, f) with g not above the last generation number
\* fails with InvalidGeneration(g) without running f, appends nothing and
\* leaves the registry as it is; a later with_generation(g') with g' above the
\* last number starts, also on the store loaded again after a sync.
C20_StaleGenerationRejected == [][C20_StartStep]_vars

\* on a store loaded again after this run appended to it, a with_generation
\* of a number not above the last one has failed with InvalidGeneration
C20_Witness ==
    \E w \in Writers :
        /\ origin = "load" /\ ~pre.valid
        /\ \E i \in 1..Len(table) : log[i].op # "none" /\ find(gens, i) = log[i].gen
        /\ gens.state.tag = "Ended"
        /\ wpc[w] = "idle" /\ wres[w] = "InvalidGeneration"
        /\ wgen[w] <= gens.state.gen

\* the indices whose range stands for a generation that has not ended
Placeholders ==
    {i \in Idx : /\ gens.ranges[i] # NoGen
                 /\ \/ i >= head
                    \/ gens.state.tag = "InProgress" /\ gens.ranges[i] = gens.state.gen}

\* C21: at most one generation is open at any time: of the threads calling
\* with_generation at most one is past the lock, so no two closures run
\* together, and the registry holds at most one placeholder range, that of
\* the generation whose caller holds the lock.
C21_OneGenerationOpen ==
    /\ Cardinality({w \in Writers : wpc[w] \in {"locked", "closure", "ended"}}) <= 1
    /\ \A w \in Writers : wpc[w] \in {"locked", "closure", "ended"} <=> generation_lock = w
    /\ Cardinality(Placeholders) <= 1
    /\ Placeholders # {} =>
          /\ gens.state.tag = "InProgress"
          /\ Placeholders = {gens.state.start}
          /\ \E w \in Writers : wpc[w] = "closure" /\ wgen[w] = gens.state.gen

\* one thread runs its closure, which has appended, while the other has
\* called with_generation and waits
C21_Witness ==
    /\ wpc["w1"] = "closure"
    /\ wpc["w2"] = "waiting"
    /\ head > gens.state.start
    /\ Placeholders = {gens.state.start}

\* a thread parked on the lock has not been given a result
C22_NoResultWhileWaiting ==
    \A w \in Writers : wpc[w] = "waiting" => wres[w] = "none" /\ generation_lock # w

\* a thread parked on the lock is handed it
C22_WaiterProceeds ==
    \A w \in Writers : (wpc[w] = "waiting") ~> (wpc[w] = "locked")

\* the start of a generation whose number is above that of the generation
\* that ended last is accepted
C22_StartAfterWait ==
    \A w \in Writers :
        (/\ gens.state.tag = "Ended" /\ wgen[w] > gens.state.gen
         /\ with_generation_start(w)) =>
            wpc'[w] = "closure" /\ gens'.state = StInProgress(wgen[w], head)

\* C22: a with_generation(g2, f2) called while another thread is inside
\* with_generation(g1, f1) waits and is given no error; when the first call
\* has returned it goes on, and its generation starts whenever g2 > g1.
C22_SecondCallerWaits ==
    /\ []C22_NoResultWhileWaiting
    /\ C22_WaiterProceeds
    /\ [][C22_StartAfterWait]_vars

\* a thread called with_generation(g2) during generation g1 < g2 and is still
\* parked while the first caller, its generation ended, is about to return
C22_Witness ==
    /\ wpc["w2"] = "waiting"
    /\ wpc["w1"] = "ended"
    /\ wgen["w2"] > wgen["w1"]
    /\ gens.state = StEnded(wgen["w1"])
    /\ head > pre.head

\* a view of the store is live
ViewLive == \E r \in Readers : rpc[r] \in {"mapped", "iter", "done"}

\* a step of an append (new_color_class, or the write of a fork or extend)
AppendCall ==
    \/ \E t \in Workers, c \in Colors : new_color_class(t, c)
    \/ \E t \in Workers : append_fragment(t)

\* while a view is live an append writes nothing and returns a failure
C23_AppendStep ==
    (ViewLive /\ AppendCall) => (table' = table /\ head' = head /\ ret'.kind # "ok")

\* C23: an append (new_class, fork or extend) fails with a resource-busy error
\* while any view of the store is live, and succeeds again once every view
\* has been dropped.
C23_AppendFailsWhileMapped == [][C23_AppendStep]_vars

\* encoding a registry and decoding the bytes gives the registry back
C24_RoundTripStep ==
    registry_roundtrip =>
        /\ wres'["w1"] = "ok"
        /\ gens'.state = gens.state
        /\ gens'.ranges = gens.ranges

\* C24: for every registry that start and end calls can reach (numbers
\* skipped, generations left empty, a generation left in progress), decoding
\* its encoding gives a registry equal to it in state and in ranges.
C24_EncodeDecode == [][C24_RoundTripStep]_vars

\* a registry left in progress after a generation that ended and one that was
\* skipped, encoded and decoded
C24_Witness ==
    /\ origin = "registry"
    /\ sidecar = Generations_encode(gens)
    /\ gens.state.tag = "InProgress"
    /\ \E i \in Idx : gens.ranges[i] # NoGen /\ gens.ranges[i] + 1 < gens.state.gen
    /\ wres["w1"] = "ok"
    /\ Len(sidecar.entries) = 2

\* C27: a start on a new registry succeeds exactly when head is 1, for any
\* generation number, and then records the singleton [1, 2) with that number
\* and makes the state InProgress(g, 1).
C27_FirstStartAtOne ==
    [][\A h \in Idx, g \in Gens :
          (gens.state.tag = "None" /\ registry_start(h, g)) =>
              /\ wres'["w1"] = "ok" <=> h = 1
              /\ h = 1 => /\ gens'.state = StInProgress(g, 1)
                          /\ gens'.ranges = [i \in Idx |-> IF i = 1 THEN g ELSE NoGen]]_vars

\* the end of the last recorded range, 0 when nothing is recorded
LastEnd == IF \A i \in Idx : gens.ranges[i] = NoGen
           THEN 0
           ELSE 1 + CHOOSE i \in Idx : gens.ranges[i] # NoGen
                                       /\ \A j \in Idx : j > i => gens.ranges[j] = NoGen

C28_StartStep ==
    \A h \in Idx, g \in Gens :
        (gens.state.tag = "Ended" /\ registry_start(h, g)) =>
            /\ wres'["w1"] = "ok" <=> (g > gens.state.gen /\ h >= LastEnd)
            /\ wres'["w1"] = "ok" =>
                  /\ gens'.state = StInProgress(g, h)
                  /\ gens'.ranges[h] = g
                  /\ \A i \in Idx \ {h} : gens'.ranges[i] = gens.ranges[i]
            /\ h < LastEnd => wres'["w1"] # "ok" /\ gens' = gens

\* C28: a start after a generation ended succeeds exactly when the number is
\* larger than the last one and head is not below the end of the last range;
\* it then adds the singleton [head, head + 1) with the new number, makes the
\* state InProgress(g, head) and leaves the earlier ranges alone; with head
\* below the end of the last range it fails and changes nothing.
C28_StartAfterEnded == [][C28_StartStep]_vars

\* a start past the end of the last range, leaving a gap after it
C28_Witness ==
    /\ origin = "registry"
    /\ gens.state.tag = "InProgress"
    /\ wres["w1"] = "ok"
    /\ gens.state.start = head
    /\ head >= 2
    /\ gens.ranges[head - 1] = NoGen
    /\ \E i \in Idx : i < head /\ gens.ranges[i] # NoGen /\ gens.ranges[i] < gens.state.gen

\* C29: a start while a generation is in progress fails with
\* InvalidGenerationState, not InvalidGeneration, and changes neither the
\* ranges nor the state.
C29_StartWhileOpen ==
    [][\A h \in Idx, g \in Gens :
          (gens.state.tag = "InProgress" /\ registry_start(h, g)) =>
              /\ wres'["w1"] = "InvalidGenerationState"
              /\ gens' = gens]_vars

C30_EndStep ==
    \A h \in 0..(MaxHead + 1) :
        (gens.state.tag = "InProgress" /\ h > gens.state.start /\ registry_end(h)) =>
            /\ wres'["w1"] = "ok"
            /\ gens'.state = StEnded(gens.state.gen)
            /\ \A i \in Idx : find(gens', i) = gens.state.gen <=> (gens.state.start <= i /\ i < h)
            /\ \A i \in Idx : i < gens.state.start => find(gens', i) = find(gens, i)

\* C30: ending a generation in progress with head past its start replaces the
\* singleton by the range [start, head) with the generation's number: find
\* gives that number at exactly the indices from start up to head, and the
\* state becomes Ended(g).
C30_EndWidens == [][C30_EndStep]_vars

\* the second generation ended two or more indices past its start, short of
\* the last index
C30_Witness ==
    /\ origin = "registry"
    /\ gens.state.tag = "Ended"
    /\ wres["w1"] = "ok"
    /\ head <= MaxHead
    /\ head >= 3
    /\ gens.ranges[head - 1] = gens.state.gen
    /\ gens.ranges[head - 2] = gens.state.gen
    /\ gens.ranges[head] = NoGen
    /\ gens.ranges[0] # NoGen /\ gens.ranges[0] < gens.state.gen

\* the ranges of two entries share an index
Overlap(a, b) == a.start < b.end /\ b.start < a.end /\ a.start < a.end /\ b.start < b.end

\* C25: a generations file whose entries are not pairwise disjoint, an entry
\* repeated later in the list included, is refused with a decoding error and
\* gives no registry: no store is opened from it.
C25_OverlapRejected ==
    origin = "load" =>
        \A j, k \in 1..Len(sidecar.entries) : j < k => ~Overlap(sidecar.entries[j], sidecar.entries[k])

C26_LoadStep ==
    \A l \in FileLengths, m \in BOOLEAN :
        LET dir == OpenDirectory(l, m, sidecar')
        IN  load(dir, buffer_size') =>
            /\ (dir.len % RecordSize # 0 \/ ~dir.magic) =>
                  /\ origin' \in {"InvalidData", "UnexpectedEof"}
                  /\ head' = 0 /\ table' = <<>> /\ gens' = Generations_new
            /\ origin' = "load" => /\ head' = dir.len \div RecordSize
                                   /\ Len(table') = head' - 1
            /\ (dir.len % RecordSize = 0 /\ dir.magic /\ dir.sidecar # NoFile
                /\ Generations_decode(dir.sidecar).res = "ok") => origin' = "load"

\* C26: load fails and gives no store when the length of the table file is
\* not a multiple of the record size or its first record is not the magic
\* header; a store that is opened has head = length / record size, and one is
\* opened whenever both checks pass and the generations file decodes.
C26_OpenChecksTable == [][C26_LoadStep]_vars

\* a store opened from a table of the header and one record, with a registry
\* that covers the record
C26_Witness ==
    /\ origin = "load"
    /\ head = 2
    /\ Len(table) = 1
    /\ disk = 2
    /\ gens.ranges[1] = 0
    /\ gens.state = StEnded(0)

C31_EndStep ==
    \A h \in 0..(MaxHead + 1) :
        (gens.state.tag = "InProgress" /\ h = gens.state.start /\ registry_end(h)) =>
            /\ wres'["w1"] = "ok"
            /\ gens'.state = StEnded(gens.state.gen)
            /\ \A i \in Idx : find(gens', i) # gens.state.gen
            /\ \A i \in Idx \ {h} : find(gens', i) = find(gens, i)
            /\ \A g \in Gens : g > gens.state.gen =>
                  /\ start_new_generation_at(gens', h, g).res = "ok"
                  /\ start_new_generation_at(gens', h, g).gens.state = StInProgress(g, h)
                  /\ find(start_new_generation_at(gens', h, g).gens, h) = g

\* C31: ending a generation in progress with head equal to its start removes
\* the singleton, so that no index has the generation's number, and makes the
\* state Ended(g); a start at the same head with a larger number then
\* succeeds and takes the same start index.
C31_EmptyGenerationRemoved == [][C31_EndStep]_vars

\* a generation ended with nothing appended, after one that recorded a range,
\* with a larger number left to start
C31_Witness ==
    /\ origin = "registry"
    /\ gens.state.tag = "Ended"
    /\ wres["w1"] = "ok"
    /\ gens.state.gen < MaxGen
    /\ \A i \in Idx : gens.ranges[i] # gens.state.gen
    /\ head >= 1
    /\ gens.ranges[head - 1] # NoGen
    /\ gens.ranges[head] = NoGen

C32_EndStep ==
    \A h \in 0..(MaxHead + 1) :
        (gens.state.tag \in {"None", "Ended"} /\ registry_end(h)) =>
            /\ wres'["w1"] = "InvalidGenerationState"
            /\ gens' = gens

\* C32: an end on a new registry or after a generation ended fails with
\* InvalidGenerationState and changes neither the ranges nor the state.
C32_EndOutsideGeneration == [][C32_EndStep]_vars

\* an end refused after a generation that recorded a range had ended
C32_Witness ==
    /\ origin = "registry"
    /\ gens.state.tag = "Ended"
    /\ wres["w1"] = "InvalidGenerationState"
    /\ \E i \in Idx : gens.ranges[i] = gens.state.gen

\* C33: whenever no generation is in progress, the recorded ranges, taken in
\* index order, start at 1, each start where the one before ends, and end at
\* head: together they are exactly the indices from 1 up to head.
C33_RangesPartition ==
    gens.state.tag \in {"None", "Ended"} =>
        LET it == RangeIter(gens.ranges) IN
        /\ {i \in Idx : gens.ranges[i] # NoGen} = 1..(head - 1)
        /\ it # <<>> => it[1].start = 1 /\ it[Len(it)].end = head
        /\ \A k \in 1..(Len(it) - 1) : it[k + 1].start = it[k].end
        /\ \A j, k \in 1..Len(it) : j < k => it[j].end <= it[k].start

\* two generations recorded one after the other, the second of two fragments
C33_Witness ==
    /\ gens.state.tag = "Ended"
    /\ \A w \in Writers : wpc[w] = "idle"
    /\ Len(RangeIter(gens.ranges)) = 2
    /\ head = 4
    /\ gens.ranges[2] = gens.ranges[3]
    /\ gens.ranges[1] < gens.ranges[2]

C34_AppendStep ==
    head' # head =>
        /\ gens.state.tag = "InProgress"
        /\ InSession
        /\ head' = head + 1
        /\ gens' = gens

\* every fragment appended lies, once its generation has ended, in the range
\* recorded for that generation
C34_Recorded ==
    gens.state.tag = "Ended" =>
        \A i \in 1..(head - 1) : log[i].op # "none" => find(gens, i) = log[i].gen

\* C34: head increases only in steps taken while a generation is in progress,
\* so it does not change between the end of one generation and the start of
\* the next, and every fragment appended lies in the range recorded when its
\* generation ends.
C34_AppendsInsideGeneration == []C34_Recorded /\ [][C34_AppendStep]_vars

\* two generations ended, each with a fragment appended by a thread of its
\* closure
C34_Witness ==
    /\ gens.state.tag = "Ended"
    /\ \A w \in Writers : wpc[w] = "idle"
    /\ \E i, j \in 1..(head - 1) :
          /\ i < j
          /\ log[i].op = "derive" /\ log[j].op = "derive"
          /\ log[i].gen < log[j].gen
          /\ find(gens, i) = log[i].gen /\ find(gens, j) = log[j].gen

\* every fork and extend so far named a parent that was not appended in the
\* generation of the call: id 0, a record the store was opened with, or a
\* fragment of an earlier generation
OneExtensionPerGeneration ==
    \A i \in 1..(head - 1) :
        log[i].op = "derive" =>
            \/ log[i].parent = 0
            \/ log[log[i].parent].op = "none"
            \/ log[log[i].parent].gen # log[i].gen

\* C35: when every fork and extend named a parent that existed before the
\* generation of the call was started, the generation numbers read for any
\* class strictly decrease from its head to its root: no chain holds two
\* fragments of one generation.
C35_OnePerGeneration ==
    OneExtensionPerGeneration =>
        \A id \in 0..head :
            LET out == collect_class(table, gens, head, id).out
            IN  \A k \in 1..(Len(out) - 1) : out[k][2] > out[k + 1][2]

\* a class of three fragments, extended once in each of two generations
C35_Witness ==
    /\ OneExtensionPerGeneration
    /\ gens.state.tag = "Ended"
    /\ \E id \in 1..(head - 1) :
          /\ Len(collect_class(table, gens, head, id).out) = 3
          /\ log[id].op = "derive"
          /\ log[log[id].parent].op = "derive"

\* the number of fragments an iterator has left to read in its view
Remaining(r) == Len(ChainOf(table, gens.ranges, rlen[r], ridx[r]))

C36_LowerBound ==
    \A r \in Readers : rpc[r] = "iter" => size_hint(r).lower <= Remaining(r)

C36_UpperBound ==
    \A r \in Readers :
        (rpc[r] = "iter" /\ size_hint(r).upper # NoGen) => size_hint(r).upper >= Remaining(r)

\* C36: at every step of every iteration the lower bound of size_hint is at
\* most, and its upper bound, when there is one, at least, the number of
\* pairs the iterator still yields.
C36_SizeHintBounds == C36_LowerBound /\ C36_UpperBound

\* some call has begun and not returned
InCall ==
    \/ \E w \in Writers : wpc[w] # "idle"
    \/ \E t \in Workers : tpc[t] # "idle"
    \/ \E r \in Readers : rpc[r] \notin {"idle", "mapped", "iter", "done", "panic"}
    \/ spc # "idle"

\* the locks exclude, and while a call is under way some thread in a call can
\* take a step
C37_NotStuck ==
    /\ Cardinality(FileHolders) <= 1
    /\ Cardinality(GenerationsWriters) <= 1
    /\ GenerationsWriters # {} => GenerationsReaders = {}
    /\ InCall => ENABLED (LockAcquires \/ LockBodies)

\* the generations lock is never taken by a thread that holds the file lock,
\* nor the generation lock by one that holds either: the order is generation
\* lock, generations, file
C37_OrderStep ==
    /\ \A x \in (GenerationsWriters' \cup GenerationsReaders')
                   \ (GenerationsWriters \cup GenerationsReaders) : x \notin FileHolders
    /\ \A w \in Writers :
          (generation_lock' = w /\ generation_lock # w) =>
              w \notin FileHolders \cup GenerationsWriters

\* every call returns, or unwinds from the panic of a missing generation
C37_Returns ==
    /\ \A w \in Writers : (wpc[w] # "idle") ~> (wpc[w] = "idle")
    /\ (tpc["t1"] # "idle") ~> (tpc["t1"] = "idle")
    /\ \A r \in Readers : (rpc[r] # "idle") ~> (rpc[r] \in {"idle", "mapped", "iter", "done", "panic"})
    /\ (spc # "idle") ~> (spc = "idle")

\* C37: threads calling with_generation (not nested), appending in a closure,
\* mapping, reading classes and syncing on one store never deadlock: the
\* three locks are taken in one order, some thread in a call can always move,
\* and, the closures returning, every call returns.
C37_NoDeadlock == []C37_NotStuck /\ [][C37_OrderStep]_vars /\ C37_Returns

\* a writer ending a generation holds the generations lock and is parked on
\* the file lock, which a sync holds; a second writer is parked on the
\* generation lock and a reader on the generations lock
C37_Witness ==
    /\ wpc["w1"] = "wait_end_file"
    /\ wpc["w2"] = "wait_generation"
    /\ spc = "flush"
    /\ \E r \in Readers : rpc[r] = "wait_next"
    /\ head > gens.state.start

\* the largest generation number a registry holds, in its state or its ranges
LastRecorded(g) ==
    Max({NoGen} \cup {g.ranges[i] : i \in Idx}
                \cup (IF g.state.tag = "None" THEN {} ELSE {g.state.gen}))

\* C38: on the store a load gives after a sync, whenever the sync was made,
\* with_generation starts for every generation number larger than the last
\* one recorded.
C38_StartAfterLoad ==
    [][reopen =>
          \A g \in Gens :
              g > LastRecorded(gens') => start_new_generation_at(gens', head', g).res = "ok"]_vars

\* the same for a sync made between generations, one having ended
C38_BetweenGenerations ==
    [][(reopen /\ gens'.state.tag = "Ended") =>
          \A g \in Gens :
              g > LastRecorded(gens') => start_new_generation_at(gens', head', g).res = "ok"]_vars

C39_OpenOrCreateStep ==
    \A l \in FileLengths, m \in BOOLEAN :
        LET dir == OpenDirectory(l, m, sidecar')
        IN  load_or_new(dir, buffer_size') =>
              /\ load_result(dir) \notin {"ok", "panic"} =>
                    /\ origin' = "new"
                    /\ table' = <<>>
                    /\ head' = 1
                    /\ disk' + buffered' = 1
                    /\ gens' = Generations_new
              /\ origin' = "load" <=> load_result(dir) = "ok"
              /\ load_result(dir) = "ok" =>
                    /\ table' = dir.records
                    /\ head' = l \div RecordSize
                    /\ gens' = Generations_decode(dir.sidecar).gens

C40_RootStep ==
    /\ (ret' # ret /\ ret'.kind = "InvalidColorId") => ret'.id # 0
    /\ \A t \in Workers :
          (tpc[t] = "idle" /\ tpc'[t] = "write" /\ targ'[t].parent = 0) =>
              tfrag'[t] = new_fragment(targ'[t].color)

\* a fragment appended by a fork or an extend of id 0 has parent_pointer 0,
\* and its class reads, once the generation has ended, as the one pair of its
\* colour and that generation
C40_RootClass ==
    /\ InSession => head_fragment_index(0) = 0
    /\ \A i \in 1..(head - 1) :
          (log[i].op = "derive" /\ log[i].parent = 0) =>
              /\ table[i] = new_fragment(log[i].color)
              /\ gens.state.tag = "Ended" =>
                    collect_class(table, gens, head, i) =
                        [out |-> << <<log[i].color, log[i].gen>> >>, panic |-> FALSE]

\* C40: fork_color_class(ColorId(0), c) and extend_color_class(ColorId(0), c)
\* are accepted inside every generation (0 is below head) and append a
\* fragment with parent_pointer 0, so the class returned reads as the single
\* pair (c, g), as that of new_color_class(c) does.
C40_RootFragments == []C40_RootClass /\ [][C40_RootStep]_vars

\* a generation ended in which a fork or extend of id 0 appended a fragment to
\* a store that held other classes
C40_Witness ==
    /\ gens.state.tag = "Ended"
    /\ \E i \in 2..(head - 1) :
          /\ log[i].op = "derive"
          /\ log[i].parent = 0
          /\ log[i].seen > 1
          /\ collect_class(table, gens, head, i).out = << <<log[i].color, log[i].gen>> >>

====
